---- MODULE Spec2Model ----
(***************************************************************************)
(* A model of turbo-export-engine's core: the chunked parallel CSV writer, *)
(* the spreadsheet builder, the split+zip partitioner and the worker pool. *)
(* Strings are sequences of one-character strings, so that formatting,     *)
(* escaping and concatenation are computed and not assumed.                *)
(***************************************************************************)
EXTENDS Integers, Sequences, FiniteSets, TLC

\* ------------------------------------------------------------------ bounds
MaxRows == 3
MaxChunkSize == 2
MaxWorkers == 2
MaxThreads == 4
MaxQueue == 1
MaxCallers == 2

\* ------------------------------------------------- program constants
DefaultChunkSize == 10000
DefaultWorkers == 4

\* ------------------------------------------------------------ state
VARIABLES
    headers,      \* job.Headers
    rows,         \* job.Rows
    cfgMode,      \* config.Mode
    cfgFormat,    \* config.Format
    cfgChunkSize, \* config.ChunkSize
    cfgWorkers,   \* config.Workers
    executor,     \* which Execute/Process entry point runs the job
    pc,           \* position of the calling (coordinating) goroutine
    component,    \* which chunked writer the call is in: "csv", "xlsx", "split" or "none"
    spawned,      \* number of chunk goroutines started by the dispatch loop
    taskPc,       \* position of every chunk goroutine
    wg,           \* sync.WaitGroup counter
    semaphore,    \* number of tokens held in the semaphore channel
    resultChan,   \* buffered channel of processed chunks (FIFO)
    errChan,      \* buffered channel of errors (FIFO)
    resultClosed, \* close(resultChan) has happened
    errClosed,    \* close(errChan) has happened
    closerPc,     \* position of the goroutine that waits and closes the channels
    results,      \* the coordinating goroutine's results slice
    out,          \* what has been written to the output sink
    archive,      \* the entries created in the output ZIP archive, in order
    fileCreated,  \* os.Create(OutputPath) has created or truncated the output file
    ret,          \* the call's returned error: "none" until it returns, "nil" for success
    cfgSplit,     \* SplitZipConfig.Split
    cfgZip,       \* SplitZipConfig.Zip
    cfgIncludeHeaders, \* SplitZipConfig.IncludeHeaders
    splitResult,  \* the *SplitZipResult returned by Splitter.Execute
    poolWorkers,  \* Pool.workers
    queueCap,     \* cap(Pool.jobQueue)
    jobQueue,     \* Pool.jobQueue: the jobs enqueued and not yet dequeued (FIFO)
    queueClosed,  \* close(p.jobQueue) has happened
    poolWg,       \* Pool.wg counter
    onceState,    \* Pool.once: "new", "running" (Do is executing) or "done"
    stopped,      \* Pool.stopped
    mu,           \* Pool.mu: 0 when free, else the client thread holding it
    workerPc,     \* position of every worker goroutine
    workerJob,    \* the job a worker has dequeued (0 for none)
    threadOp,     \* the call each client thread makes: "Start", "Submit" or "Shutdown"
    threadPc,     \* position of every client thread in its call
    startLoop,    \* Start's loop counter i
    jobHasResult, \* per job: job.Result != nil
    jobOutcome,   \* per job: what the processor returns for it
    slot,         \* per job: the values sent on job.Result, in order
    slotClosed,   \* per job: close(job.Result) has happened
    dequeues,     \* per job: how many times a worker received it from the queue
    processed,    \* per job: how many times the processor was invoked for it
    panicked,     \* a goroutine panicked: "none" or the runtime's message
    globalPoolExecutor, \* the package variable globalPoolExecutor: 0 for nil, else the executor object
    execQueue,    \* per executor object: its queue field, "nil" or "queue"
    globalQueueOnce, \* globalQueueOnce: "new", "running" or "done"
    globalQueue,  \* the package variable globalQueue: "nil" or "queue"
    poolsCreated, \* how many times NewPool has run
    threadExec,   \* per client thread: the executor NewPoolExecutor returned to it (0 for none)
    threadCaller, \* per client thread: the function that called the pool method it is in
    execRet,      \* per client thread: what Execute returned, "none" until it returns
    ioPath,       \* the CSV write call whose file I/O is followed: "WriteSync" or "WriteParallel"
    ioPc,         \* position of that call: "write", "returned" ("none" when no call is followed)
    ioNext,       \* index of the next record the call hands to csvWriter.Write
    ioBuf,        \* records held in the bufio.Writer, not yet written to the file
    ioErr,        \* the bufio.Writer's sticky error
    ioFailAt,     \* the file's first failing Write (0: the file never fails)
    ioWrites,     \* Write calls made on the file so far
    ioRet,        \* what the call returned, "none" until it returns
    fnName,       \* the helper function under evaluation ("none" when none is)
    fnInt,        \* its integer argument
    fnText,       \* its text argument
    fnPc,         \* "call" before the function has run, "returned" after
    fnOut,        \* what it returned
    nodeCall,     \* the method of the Node wrapper's ExportEngine that is called ("none" for none)
    nodeOptions,  \* its options argument: the keys given and their values
    nodePc,       \* "call" before the method has spawned the binary, "spawned" after
    nodeArgs,     \* the command line the binary was spawned with
    clock,        \* Date.now(), in milliseconds
    tmpFiles,     \* the files that exist in os.tmpdir()
    nodeCalls     \* the wrapper calls in progress: method, position, tmpInput, tmpOutput

poolVars == <<poolWorkers, queueCap, jobQueue, queueClosed, poolWg, onceState, stopped, mu,
              workerPc, workerJob, threadOp, threadPc, startLoop, jobHasResult, jobOutcome,
              slot, slotClosed, dequeues, processed, panicked>>
globalVars == <<globalPoolExecutor, execQueue, globalQueueOnce, globalQueue, poolsCreated,
                threadExec, threadCaller, execRet>>
ioVars == <<ioPath, ioPc, ioNext, ioBuf, ioErr, ioFailAt, ioWrites, ioRet>>
fnVars == <<fnName, fnInt, fnText, fnPc, fnOut>>
nodeVars == <<nodeCall, nodeOptions, nodePc, nodeArgs, clock, tmpFiles, nodeCalls>>
splitVars == <<cfgSplit, cfgZip, cfgIncludeHeaders, splitResult>>
jobVars == <<headers, rows, cfgFormat, cfgChunkSize, cfgWorkers, executor>>
chanVars == <<resultChan, errChan, resultClosed, errClosed>>
taskVars == <<spawned, taskPc, wg, semaphore>>
vars == <<headers, rows, cfgMode, cfgFormat, cfgChunkSize, cfgWorkers, executor,
          pc, component, spawned, taskPc, wg, semaphore, resultChan, errChan,
          resultClosed, errClosed, closerPc, results, out, archive, fileCreated, ret,
          cfgSplit, cfgZip, cfgIncludeHeaders, splitResult,
          poolWorkers, queueCap, jobQueue, queueClosed, poolWg, onceState, stopped, mu,
          workerPc, workerJob, threadOp, threadPc, startLoop, jobHasResult, jobOutcome,
          slot, slotClosed, dequeues, processed, panicked,
          globalPoolExecutor, execQueue, globalQueueOnce, globalQueue, poolsCreated,
          threadExec, threadCaller, execRet,
          ioPath, ioPc, ioNext, ioBuf, ioErr, ioFailAt, ioWrites, ioRet,
          fnName, fnInt, fnText, fnPc, fnOut,
          nodeCall, nodeOptions, nodePc, nodeArgs, clock, tmpFiles, nodeCalls>>
exportVars == <<headers, rows, cfgMode, cfgFormat, cfgChunkSize, cfgWorkers, executor,
                pc, component, spawned, taskPc, wg, semaphore, resultChan, errChan,
                resultClosed, errClosed, closerPc, results, out, archive, fileCreated, ret,
                cfgSplit, cfgZip, cfgIncludeHeaders, splitResult>>

\* ------------------------------------------------------------ text
Digits == <<"0", "1", "2", "3", "4", "5", "6", "7", "8", "9">>

RECURSIVE Itoa(_)
\* fmt's %d rendering of a non-negative integer
Itoa(n) == IF n < 10 THEN <<Digits[n + 1]>> ELSE Itoa(n \div 10) \o <<Digits[(n % 10) + 1]>>

\* A cell value: text, number, boolean or nil (types.Row is []interface{}).
TextCell(s) == [kind |-> "text", s |-> s, n |-> 0]
NumCell(n) == [kind |-> "num", s |-> <<>>, n |-> n]
BoolCell(b) == [kind |-> "bool", s |-> <<>>, n |-> IF b THEN 1 ELSE 0]
NilCell == [kind |-> "nil", s |-> <<>>, n |-> 0]

\* fmt.Sprintf("%v", cell)
SprintV(cell) ==
    CASE cell.kind = "text" -> cell.s
      [] cell.kind = "num" -> IF cell.n < 0 THEN <<"-">> \o Itoa(-cell.n) ELSE Itoa(cell.n)
      [] cell.kind = "bool" -> IF cell.n = 1 THEN <<"t", "r", "u", "e">> ELSE <<"f", "a", "l", "s", "e">>
      [] OTHER -> <<"<", "n", "i", "l", ">">>

\* ------------------------------------------------------------ inputs
SampleNames == << <<"A", "n", "n">>, <<"B", "o">>, <<"<", "&", ">">>, <<>>, <<"a", ",", "b">> >>

\* The i-th row of the sample table: rows differ pairwise, mix the cell kinds
\* and differ in length.
SampleRow(i) ==
    LET name == TextCell(SampleNames[((i - 1) % Len(SampleNames)) + 1])
        age == NumCell(35 - 5 * i)
    IN  CASE i % 3 = 0 -> <<name, age, BoolCell(TRUE), NilCell>>
          [] i % 3 = 1 -> <<name, age>>
          [] OTHER -> <<name>>

SampleRows(n) == [i \in 1..n |-> SampleRow(i)]

SampleHeaders == { <<>>, << <<"N", "a", "m", "e">>, <<"A", "g", "e">> >> }

Modes == {"sync", "parallel", "global_pool"}

\* ------------------------------------------------------------ CSV writer
\* the record of one row: every cell rendered with %v
RowRecord(row) == [j \in 1..Len(row) |-> SprintV(row[j])]

\* processChunk with the rows of the chunk taken last to first
processChunkReversed(index, chunkRows) ==
    [chunk |-> [Index |-> index,
                Records |-> [i \in 1..Len(chunkRows) |->
                                RowRecord(chunkRows[Len(chunkRows) + 1 - i])]],
     err |-> "nil"]

processChunk(index, chunkRows) ==
    [chunk |-> [Index |-> index,
                Records |-> [i \in 1..Len(chunkRows) |-> RowRecord(chunkRows[i])]],
     err |-> "nil"]

RECURSIVE splitFrom(_, _, _)
\* the loop of splitIntoChunks from offset i (0-based)
splitFrom(rs, chunkSize, i) ==
    IF i < Len(rs)
    THEN LET end == IF i + chunkSize > Len(rs) THEN Len(rs) ELSE i + chunkSize
         IN  <<SubSeq(rs, i + 1, end)>> \o splitFrom(rs, chunkSize, i + chunkSize)
    ELSE <<>>

splitIntoChunks(rs, chunkSize) == splitFrom(rs, chunkSize, 0)

\* chunkSize and workers as WriteParallel reads them
EffChunkSize == IF cfgChunkSize <= 0 THEN DefaultChunkSize ELSE cfgChunkSize
EffWorkers == IF cfgWorkers <= 0 THEN DefaultWorkers ELSE cfgWorkers

\* the header record, when there is one (writer.go 41-45 and 87-91)
HeaderRecords(hs) == IF Len(hs) > 0 THEN <<hs>> ELSE <<>>

RECURSIVE ConcatAll(_)
\* the concatenation of a sequence of sequences
ConcatAll(ss) == IF ss = <<>> THEN <<>> ELSE Head(ss) \o ConcatAll(Tail(ss))

\* WriteSync's loop: one record per row, in row order
WriteSyncRecords(hs, rs) == HeaderRecords(hs) \o [i \in 1..Len(rs) |-> RowRecord(rs[i])]

\* the zero value of processedChunk
ZeroChunk == [Index |-> 0, Records |-> <<>>]

\* results[result.Index] = result, stored in arrival order instead
StoreResultByArrival(res, r) ==
    [res EXCEPT ![Cardinality({i \in DOMAIN res : res[i] # ZeroChunk})] = r]

\* results[result.Index] = result
StoreResult(res, r) == [res EXCEPT ![r.Index] = r]

\* the records of the results slice, in index order
ResultRecords(res, n) == ConcatAll([i \in 1..n |-> res[i - 1].Records])

\* no *SplitZipResult
NilResult == [set |-> FALSE, TotalParts |-> 0, TotalRows |-> 0, PartFiles |-> <<>>]

\* no CSV write call is followed at the level of its file I/O
NoIo ==
    /\ ioPath = "none" /\ ioPc = "none" /\ ioNext = 0 /\ ioBuf = 0
    /\ ioErr = "nil" /\ ioFailAt = 0 /\ ioWrites = 0 /\ ioRet = "none"

\* no helper function is under evaluation
NoFn == fnName = "none" /\ fnInt = 0 /\ fnText = <<>> /\ fnPc = "none" /\ fnOut = <<>>

\* the options of a call that passes none
NoOptions ==
    [given |-> {}, mode |-> "", workers |-> 0, chunkSize |-> 0, format |-> "", includeHeaders |-> TRUE]

\* no method of the Node wrapper is called
NoNodeArgs ==
    /\ nodeCall = "none" /\ nodeOptions = NoOptions /\ nodePc = "none"
    /\ nodeArgs = [command |-> "none"]

\* no wrapper call is in progress and os.tmpdir() is empty
NoNodeCalls == clock = 0 /\ tmpFiles = {} /\ nodeCalls = <<>>

NoNode == NoNodeArgs /\ NoNodeCalls

\* the machinery of a chunked call before the call starts
Idle ==
    /\ component = "none"
    /\ spawned = 0
    /\ taskPc = [i \in {} |-> "none"]
    /\ wg = 0
    /\ semaphore = 0
    /\ resultChan = <<>>
    /\ errChan = <<>>
    /\ resultClosed = FALSE
    /\ errClosed = FALSE
    /\ closerPc = "none"
    /\ results = [i \in {} |-> ZeroChunk]
    /\ out = <<>>
    /\ archive = <<>>
    /\ fileCreated = FALSE
    /\ ret = "none"

\* no pool exists: the state of the pool's variables in a call that uses none
NoPool ==
    /\ poolWorkers = 0
    /\ queueCap = 0
    /\ jobQueue = <<>>
    /\ queueClosed = FALSE
    /\ poolWg = 0
    /\ onceState = "new"
    /\ stopped = FALSE
    /\ mu = 0
    /\ workerPc = <<>>
    /\ workerJob = <<>>
    /\ threadOp = <<>>
    /\ threadPc = <<>>
    /\ startLoop = 0
    /\ jobHasResult = <<>>
    /\ jobOutcome = <<>>
    /\ slot = <<>>
    /\ slotClosed = <<>>
    /\ dequeues = <<>>
    /\ processed = <<>>
    /\ panicked = "none"
    /\ globalPoolExecutor = 0
    /\ execQueue = <<>>
    /\ globalQueueOnce = "new"
    /\ globalQueue = "nil"
    /\ poolsCreated = 0
    /\ threadExec = <<>>
    /\ threadCaller = <<>>
    /\ execRet = <<>>

\* ------------------------------------------------------------ executors
\* a default branch that reports success
FormatErrorSwallowed(format, r) == IF format \in {"csv", "xlsx"} THEN r ELSE "nil"

\* the default branch of the switch on the format: fmt.Errorf("unsupported format: %s", ...)
FormatError(format, r) == IF format \in {"csv", "xlsx"} THEN r ELSE "unsupported format"

\* SyncExecutor.Execute: the switch on the format
SyncExecutorExecute ==
    /\ pc = "entry"
    /\ executor = "sync"
    /\ pc' = CASE cfgFormat = "csv" -> "WriteSync"
              [] cfgFormat = "xlsx" -> "Build"
              [] OTHER -> "done"
    /\ ret' = FormatError(cfgFormat, ret)
    /\ UNCHANGED <<poolVars, globalVars, ioVars, fnVars, nodeVars, splitVars, fileCreated, jobVars, cfgMode, component, taskVars, chanVars, closerPc, results, out, archive>>

\* ParallelExecutor.Execute: sets the job's mode, then the switch on the format
ParallelExecutorExecute ==
    /\ pc = "entry"
    /\ executor = "parallel"
    /\ cfgMode' = "parallel"
    /\ pc' = CASE cfgFormat = "csv" -> "WriteParallel"
              [] cfgFormat = "xlsx" -> "Build"
              [] OTHER -> "done"
    /\ ret' = FormatError(cfgFormat, ret)
    /\ UNCHANGED <<poolVars, globalVars, ioVars, fnVars, nodeVars, splitVars, fileCreated, jobVars, component, taskVars, chanVars, closerPc, results, out, archive>>

\* poolProcessor.Process: the switch on the format, and on the mode for CSV
PoolProcessorProcess ==
    /\ pc = "entry"
    /\ executor = "pool"
    /\ pc' = CASE cfgFormat = "csv" -> IF cfgMode = "sync" THEN "WriteSync" ELSE "WriteParallel"
              [] cfgFormat = "xlsx" -> "Build"
              [] OTHER -> "done"
    /\ ret' = FormatError(cfgFormat, ret)
    /\ UNCHANGED <<poolVars, globalVars, ioVars, fnVars, nodeVars, splitVars, fileCreated, jobVars, cfgMode, component, taskVars, chanVars, closerPc, results, out, archive>>

\* ------------------------------------------------------------ csv.Writer
\* Writer.WriteSync: header, then every row, on the caller's goroutine
WriteSync ==
    /\ pc = "WriteSync"
    /\ fileCreated' = TRUE
    /\ component' = "csv"
    /\ out' = WriteSyncRecords(headers, rows)
    /\ ret' = "nil"
    /\ pc' = "done"
    /\ UNCHANGED <<poolVars, globalVars, ioVars, fnVars, nodeVars, splitVars, jobVars, cfgMode, taskVars, chanVars, closerPc, results, archive>>

\* the chunks of the running CSV call
CsvChunks == splitIntoChunks(rows, EffChunkSize)

\* Writer.WriteParallel up to the dispatch loop: the header is written first
WriteParallelBegin ==
    /\ pc = "WriteParallel"
    /\ fileCreated' = TRUE
    /\ component' = "csv"
    /\ out' = HeaderRecords(headers)
    /\ pc' = "spawn"
    /\ UNCHANGED <<poolVars, globalVars, ioVars, fnVars, nodeVars, splitVars, jobVars, cfgMode, taskVars, chanVars, closerPc, results, archive, ret>>

\* one turn of the dispatch loop: wg.Add(1) and go func(idx, chunk)
CsvSpawn ==
    /\ pc = "spawn" /\ component = "csv"
    /\ spawned < Len(CsvChunks)
    /\ wg' = wg + 1
    /\ taskPc' = [i \in 0..spawned |-> IF i = spawned THEN "start" ELSE taskPc[i]]
    /\ spawned' = spawned + 1
    /\ UNCHANGED <<poolVars, globalVars, ioVars, fnVars, nodeVars, splitVars, fileCreated, jobVars, cfgMode, pc, component, semaphore, chanVars, closerPc, results, out, archive, ret>>

\* after the loop: the closing goroutine is started and the results slice made
CsvSpawnEnd ==
    /\ pc = "spawn" /\ component = "csv"
    /\ spawned = Len(CsvChunks)
    /\ closerPc' = "wait"
    /\ results' = [i \in 0..(Len(CsvChunks) - 1) |-> ZeroChunk]
    /\ pc' = "collect"
    /\ UNCHANGED <<poolVars, globalVars, ioVars, fnVars, nodeVars, splitVars, fileCreated, jobVars, cfgMode, component, taskVars, chanVars, out, archive, ret>>

\* a range loop that ends as soon as the channel holds nothing
RangeEndsWhenEmpty(ch, closed) == ch = <<>>

\* `for result := range ch` ends when ch is closed and drained
RangeEnds(ch, closed) == ch = <<>> /\ closed

\* a wg.Wait() that returns at once
WaitReturnedAtOnce(counter) == TRUE

\* wg.Wait() returns when the counter is zero
WaitReturned(counter) == counter = 0

\* a semaphore that admits every task
AcquirableAlways(held, capacity) == TRUE

\* semaphore <- struct{}{} goes through while the channel, of capacity `workers`, is not full
Acquirable(held, capacity) == held < capacity

\* semaphore <- struct{}{}: blocks while `workers` tokens are held
CsvTaskAcquire(i) ==
    /\ component = "csv"
    /\ taskPc[i] = "start"
    /\ Acquirable(semaphore, EffWorkers)
    /\ semaphore' = semaphore + 1
    /\ taskPc' = [taskPc EXCEPT ![i] = "run"]
    /\ UNCHANGED <<poolVars, globalVars, ioVars, fnVars, nodeVars, splitVars, fileCreated, jobVars, cfgMode, pc, component, spawned, wg, chanVars, closerPc, results, out, archive, ret>>

\* processChunk, then the send of the error or of the processed chunk
CsvTaskProcess(i) ==
    /\ component = "csv"
    /\ taskPc[i] = "run"
    /\ LET p == processChunk(i, CsvChunks[i + 1])
       IN  IF p.err # "nil"
           THEN /\ Len(errChan) < EffWorkers
                /\ errChan' = Append(errChan, p.err)
                /\ UNCHANGED resultChan
           ELSE /\ Len(resultChan) < Len(CsvChunks)
                /\ resultChan' = Append(resultChan, p.chunk)
                /\ UNCHANGED errChan
    /\ taskPc' = [taskPc EXCEPT ![i] = "release"]
    /\ UNCHANGED <<poolVars, globalVars, ioVars, fnVars, nodeVars, splitVars, fileCreated, jobVars, cfgMode, pc, component, spawned, wg, semaphore, resultClosed,
                   errClosed, closerPc, results, out, archive, ret>>

\* the deferred <-semaphore
CsvTaskRelease(i) ==
    /\ component = "csv"
    /\ taskPc[i] = "release"
    /\ semaphore' = semaphore - 1
    /\ taskPc' = [taskPc EXCEPT ![i] = "wgdone"]
    /\ UNCHANGED <<poolVars, globalVars, ioVars, fnVars, nodeVars, splitVars, fileCreated, jobVars, cfgMode, pc, component, spawned, wg, chanVars, closerPc, results, out, archive, ret>>

\* the deferred wg.Done()
CsvTaskDone(i) ==
    /\ component = "csv"
    /\ taskPc[i] = "wgdone"
    /\ wg' = wg - 1
    /\ taskPc' = [taskPc EXCEPT ![i] = "done"]
    /\ UNCHANGED <<poolVars, globalVars, ioVars, fnVars, nodeVars, splitVars, fileCreated, jobVars, cfgMode, pc, component, spawned, semaphore, chanVars, closerPc, results, out, archive, ret>>

\* wg.Wait() returns, close(resultChan)
CsvCloserCloseResults ==
    /\ component = "csv"
    /\ closerPc = "wait"
    /\ WaitReturned(wg)
    /\ resultClosed' = TRUE
    /\ closerPc' = "closeErr"
    /\ UNCHANGED <<poolVars, globalVars, ioVars, fnVars, nodeVars, splitVars, fileCreated, jobVars, cfgMode, pc, component, taskVars, resultChan, errChan, errClosed, results, out, archive, ret>>

\* close(errChan)
CsvCloserCloseErr ==
    /\ component = "csv"
    /\ closerPc = "closeErr"
    /\ errClosed' = TRUE
    /\ closerPc' = "done"
    /\ UNCHANGED <<poolVars, globalVars, ioVars, fnVars, nodeVars, splitVars, fileCreated, jobVars, cfgMode, pc, component, taskVars, resultChan, errChan, resultClosed, results, out, archive, ret>>

\* one turn of `for result := range resultChan`
CsvCollect ==
    /\ pc = "collect" /\ component = "csv"
    /\ resultChan # <<>>
    /\ results' = StoreResult(results, Head(resultChan))
    /\ resultChan' = Tail(resultChan)
    /\ UNCHANGED <<poolVars, globalVars, ioVars, fnVars, nodeVars, splitVars, fileCreated, jobVars, cfgMode, pc, component, taskVars, errChan, resultClosed, errClosed, closerPc, out, archive, ret>>

\* the range loop ends: resultChan is closed and drained
CsvCollectEnd ==
    /\ pc = "collect" /\ component = "csv"
    /\ RangeEnds(resultChan, resultClosed)
    /\ pc' = "checkErr"
    /\ UNCHANGED <<poolVars, globalVars, ioVars, fnVars, nodeVars, splitVars, fileCreated, jobVars, cfgMode, component, taskVars, chanVars, closerPc, results, out, archive, ret>>

\* the non-blocking select on errChan, then the records written in index order
CsvFinish ==
    /\ pc = "checkErr" /\ component = "csv"
    /\ IF errChan # <<>>
       THEN /\ ret' = Head(errChan)
            /\ errChan' = Tail(errChan)
            /\ UNCHANGED out
       ELSE /\ out' = out \o ResultRecords(results, Len(CsvChunks))
            /\ ret' = "nil"
            /\ UNCHANGED errChan
    /\ pc' = "done"
    /\ UNCHANGED <<poolVars, globalVars, ioVars, fnVars, nodeVars, splitVars, fileCreated, jobVars, cfgMode, component, taskVars, resultChan, resultClosed, errClosed,
                   closerPc, results, archive>>

CsvTaskStep ==
    \E i \in DOMAIN taskPc :
        \/ CsvTaskAcquire(i)
        \/ CsvTaskProcess(i)
        \/ CsvTaskRelease(i)
        \/ CsvTaskDone(i)

CsvNext ==
    \/ WriteSync
    \/ WriteParallelBegin
    \/ CsvSpawn
    \/ CsvSpawnEnd
    \/ CsvTaskStep
    \/ CsvCloserCloseResults
    \/ CsvCloserCloseErr
    \/ CsvCollect
    \/ CsvCollectEnd
    \/ CsvFinish

\* ------------------------------------------------------------ xlsx.Builder
Letters == <<"A", "B", "C", "D", "E", "F", "G", "H", "I", "J", "K", "L", "M",
             "N", "O", "P", "Q", "R", "S", "T", "U", "V", "W", "X", "Y", "Z">>

RECURSIVE columnNameLoopNoDecrement(_, _)
\* the loop of columnName without its col-- (plain base 26 with A as zero)
columnNameLoopNoDecrement(col, name) ==
    IF col > 0
    THEN columnNameLoopNoDecrement(col \div 26, <<Letters[(col % 26) + 1]>> \o name)
    ELSE name

RECURSIVE columnNameLoop(_, _)
\* the loop of columnName: col is the 1-based column still to be rendered
columnNameLoop(col, name) ==
    IF col > 0
    THEN columnNameLoop((col - 1) \div 26, <<Letters[((col - 1) % 26) + 1]>> \o name)
    ELSE name

\* columnName of the builder: 0-based column index to letters
columnName(col) == columnNameLoop(col + 1, <<>>)

\* html.EscapeString on one character
EscapeChar(c) ==
    CASE c = "&" -> <<"&", "a", "m", "p", ";">>
      [] c = "<" -> <<"&", "l", "t", ";">>
      [] c = ">" -> <<"&", "g", "t", ";">>
      [] c = "'" -> <<"&", "#", "3", "9", ";">>
      [] c = "\"" -> <<"&", "#", "3", "4", ";">>
      [] OTHER -> <<c>>

\* html.EscapeString
EscapeString(s) == ConcatAll([i \in 1..Len(s) |-> EscapeChar(s[i])])

\* Builder.buildRowXML: the row element, one inline-string cell per column
buildRowXML(rowNum, cells) ==
    [tag |-> "row",
     r |-> Itoa(rowNum),
     cells |-> [j \in 1..Len(cells) |->
                  [ref |-> columnName(j - 1) \o Itoa(rowNum), t |-> EscapeString(cells[j])]]]

\* the fixed text before and after the rows of the worksheet part
SheetHeader == [tag |-> "sheetHeader", r |-> <<>>, cells |-> <<>>]
SheetFooter == [tag |-> "sheetFooter", r |-> <<>>, cells |-> <<>>]

\* writeSheet 143-161: the fixed header, then the header row as row 1
SheetPrologue(hs) == <<SheetHeader>> \o (IF Len(hs) > 0 THEN <<buildRowXML(1, hs)>> ELSE <<>>)

\* rowNum after the header row has been written
FirstDataRow(hs) == IF Len(hs) > 0 THEN 2 ELSE 1

\* writeSheet 166-176: the rows written one by one, rowNum counting up
SyncRowsXML(rs, rowNum) == [i \in 1..Len(rs) |-> buildRowXML(rowNum + i - 1, RowRecord(rs[i]))]

\* the start row handed to a chunk that forgets the chunk size
StartRowByIndex(rowNum, idx, chunkSize) == rowNum + idx

\* the start row handed to chunk idx: rowNum+idx*chunkSize
StartRow(rowNum, idx, chunkSize) == rowNum + idx * chunkSize

\* Builder.processChunkXML: the row elements of one chunk, numbered from startRowNum
processChunkXML(index, chunkRows, startRowNum) ==
    [chunk |-> [Index |-> index,
                XML |-> [i \in 1..Len(chunkRows) |->
                           buildRowXML(startRowNum + i - 1, RowRecord(chunkRows[i]))]],
     err |-> "nil"]

\* the zero value of the builder's processedChunk
ZeroChunkXML == [Index |-> 0, XML |-> <<>>]

\* the builder's own copy of splitIntoChunks
xlsxSplitIntoChunks(rs, chunkSize) == splitFrom(rs, chunkSize, 0)

XlsxChunks == xlsxSplitIntoChunks(rows, EffChunkSize)

\* the fixed parts with the workbook written before its relationships
FixedPartsWorkbookFirst ==
    << [name |-> "[Content_Types].xml", data |-> "content-types"],
       [name |-> "_rels/.rels", data |-> "root-rels"],
       [name |-> "xl/workbook.xml", data |-> "workbook"],
       [name |-> "xl/_rels/workbook.xml.rels", data |-> "workbook-rels"] >>

\* the four fixed parts Build writes before the worksheet
FixedParts ==
    << [name |-> "[Content_Types].xml", data |-> "content-types"],
       [name |-> "_rels/.rels", data |-> "root-rels"],
       [name |-> "xl/_rels/workbook.xml.rels", data |-> "workbook-rels"],
       [name |-> "xl/workbook.xml", data |-> "workbook"] >>

SheetPart == [name |-> "xl/worksheets/sheet1.xml", data |-> "sheet"]

\* Builder.Build in sync mode: the fixed parts, then the whole sheet in one pass
BuildSync ==
    /\ pc = "Build"
    /\ cfgMode = "sync"
    /\ fileCreated' = TRUE
    /\ component' = "xlsx"
    /\ archive' = FixedParts \o <<SheetPart>>
    /\ out' = SheetPrologue(headers) \o SyncRowsXML(rows, FirstDataRow(headers)) \o <<SheetFooter>>
    /\ ret' = "nil"
    /\ pc' = "done"
    /\ UNCHANGED <<poolVars, globalVars, ioVars, fnVars, nodeVars, splitVars, jobVars, cfgMode, taskVars, chanVars, closerPc, results>>

\* Builder.Build in another mode, up to the dispatch loop of writeSheet
BuildParallelBegin ==
    /\ pc = "Build"
    /\ cfgMode # "sync"
    /\ fileCreated' = TRUE
    /\ component' = "xlsx"
    /\ archive' = FixedParts \o <<SheetPart>>
    /\ out' = SheetPrologue(headers)
    /\ pc' = "spawn"
    /\ UNCHANGED <<poolVars, globalVars, ioVars, fnVars, nodeVars, splitVars, jobVars, cfgMode, taskVars, chanVars, closerPc, results, ret>>

\* one turn of the dispatch loop: wg.Add(1) and go func(idx, chunk, rowNum+idx*chunkSize)
XlsxSpawn ==
    /\ pc = "spawn" /\ component = "xlsx"
    /\ spawned < Len(XlsxChunks)
    /\ wg' = wg + 1
    /\ taskPc' = [i \in 0..spawned |-> IF i = spawned THEN "start" ELSE taskPc[i]]
    /\ spawned' = spawned + 1
    /\ UNCHANGED <<poolVars, globalVars, ioVars, fnVars, nodeVars, splitVars, fileCreated, jobVars, cfgMode, pc, component, semaphore, chanVars, closerPc, results, out, archive, ret>>

\* after the loop: the closing goroutine is started and the results slice made
XlsxSpawnEnd ==
    /\ pc = "spawn" /\ component = "xlsx"
    /\ spawned = Len(XlsxChunks)
    /\ closerPc' = "wait"
    /\ results' = [i \in 0..(Len(XlsxChunks) - 1) |-> ZeroChunkXML]
    /\ pc' = "collect"
    /\ UNCHANGED <<poolVars, globalVars, ioVars, fnVars, nodeVars, splitVars, fileCreated, jobVars, cfgMode, component, taskVars, chanVars, out, archive, ret>>

\* semaphore <- struct{}{}
XlsxTaskAcquire(i) ==
    /\ component = "xlsx"
    /\ taskPc[i] = "start"
    /\ Acquirable(semaphore, EffWorkers)
    /\ semaphore' = semaphore + 1
    /\ taskPc' = [taskPc EXCEPT ![i] = "run"]
    /\ UNCHANGED <<poolVars, globalVars, ioVars, fnVars, nodeVars, splitVars, fileCreated, jobVars, cfgMode, pc, component, spawned, wg, chanVars, closerPc, results, out, archive, ret>>

\* processChunkXML, then the send of the error or of the processed chunk
XlsxTaskProcess(i) ==
    /\ component = "xlsx"
    /\ taskPc[i] = "run"
    /\ LET p == processChunkXML(i, XlsxChunks[i + 1],
                                StartRow(FirstDataRow(headers), i, EffChunkSize))
       IN  IF p.err # "nil"
           THEN /\ Len(errChan) < EffWorkers
                /\ errChan' = Append(errChan, p.err)
                /\ UNCHANGED resultChan
           ELSE /\ Len(resultChan) < Len(XlsxChunks)
                /\ resultChan' = Append(resultChan, p.chunk)
                /\ UNCHANGED errChan
    /\ taskPc' = [taskPc EXCEPT ![i] = "release"]
    /\ UNCHANGED <<poolVars, globalVars, ioVars, fnVars, nodeVars, splitVars, fileCreated, jobVars, cfgMode, pc, component, spawned, wg, semaphore, resultClosed,
                   errClosed, closerPc, results, out, archive, ret>>

\* the deferred <-semaphore
XlsxTaskRelease(i) ==
    /\ component = "xlsx"
    /\ taskPc[i] = "release"
    /\ semaphore' = semaphore - 1
    /\ taskPc' = [taskPc EXCEPT ![i] = "wgdone"]
    /\ UNCHANGED <<poolVars, globalVars, ioVars, fnVars, nodeVars, splitVars, fileCreated, jobVars, cfgMode, pc, component, spawned, wg, chanVars, closerPc, results, out, archive, ret>>

\* the deferred wg.Done()
XlsxTaskDone(i) ==
    /\ component = "xlsx"
    /\ taskPc[i] = "wgdone"
    /\ wg' = wg - 1
    /\ taskPc' = [taskPc EXCEPT ![i] = "done"]
    /\ UNCHANGED <<poolVars, globalVars, ioVars, fnVars, nodeVars, splitVars, fileCreated, jobVars, cfgMode, pc, component, spawned, semaphore, chanVars, closerPc, results, out, archive, ret>>

\* wg.Wait() returns, close(resultChan)
XlsxCloserCloseResults ==
    /\ component = "xlsx"
    /\ closerPc = "wait"
    /\ WaitReturned(wg)
    /\ resultClosed' = TRUE
    /\ closerPc' = "closeErr"
    /\ UNCHANGED <<poolVars, globalVars, ioVars, fnVars, nodeVars, splitVars, fileCreated, jobVars, cfgMode, pc, component, taskVars, resultChan, errChan, errClosed, results, out, archive, ret>>

\* close(errChan)
XlsxCloserCloseErr ==
    /\ component = "xlsx"
    /\ closerPc = "closeErr"
    /\ errClosed' = TRUE
    /\ closerPc' = "done"
    /\ UNCHANGED <<poolVars, globalVars, ioVars, fnVars, nodeVars, splitVars, fileCreated, jobVars, cfgMode, pc, component, taskVars, resultChan, errChan, resultClosed, results, out, archive, ret>>

\* the builder's store done in arrival order instead of by index
XlsxStoreResultByArrival(res, r) ==
    [res EXCEPT ![Cardinality({i \in DOMAIN res : res[i] # ZeroChunkXML})] = r]

\* results[result.Index] = result in the builder
XlsxStoreResult(res, r) == [res EXCEPT ![r.Index] = r]

\* one turn of `for result := range resultChan`
XlsxCollect ==
    /\ pc = "collect" /\ component = "xlsx"
    /\ resultChan # <<>>
    /\ results' = XlsxStoreResult(results, Head(resultChan))
    /\ resultChan' = Tail(resultChan)
    /\ UNCHANGED <<poolVars, globalVars, ioVars, fnVars, nodeVars, splitVars, fileCreated, jobVars, cfgMode, pc, component, taskVars, errChan, resultClosed, errClosed, closerPc, out, archive, ret>>

\* the range loop ends: resultChan is closed and drained
XlsxCollectEnd ==
    /\ pc = "collect" /\ component = "xlsx"
    /\ RangeEnds(resultChan, resultClosed)
    /\ pc' = "checkErr"
    /\ UNCHANGED <<poolVars, globalVars, ioVars, fnVars, nodeVars, splitVars, fileCreated, jobVars, cfgMode, component, taskVars, chanVars, closerPc, results, out, archive, ret>>

\* the XML of the results slice, in index order
ResultXML(res, n) == ConcatAll([i \in 1..n |-> res[i - 1].XML])

\* the non-blocking select on errChan, then the chunks' XML in index order and the footer
XlsxFinish ==
    /\ pc = "checkErr" /\ component = "xlsx"
    /\ IF errChan # <<>>
       THEN /\ ret' = Head(errChan)
            /\ errChan' = Tail(errChan)
            /\ UNCHANGED out
       ELSE /\ out' = out \o ResultXML(results, Len(XlsxChunks)) \o <<SheetFooter>>
            /\ ret' = "nil"
            /\ UNCHANGED errChan
    /\ pc' = "done"
    /\ UNCHANGED <<poolVars, globalVars, ioVars, fnVars, nodeVars, splitVars, fileCreated, jobVars, cfgMode, component, taskVars, resultChan, resultClosed, errClosed,
                   closerPc, results, archive>>

XlsxTaskStep ==
    \E i \in DOMAIN taskPc :
        \/ XlsxTaskAcquire(i)
        \/ XlsxTaskProcess(i)
        \/ XlsxTaskRelease(i)
        \/ XlsxTaskDone(i)

XlsxNext ==
    \/ BuildSync
    \/ BuildParallelBegin
    \/ XlsxSpawn
    \/ XlsxSpawnEnd
    \/ XlsxTaskStep
    \/ XlsxCloserCloseResults
    \/ XlsxCloserCloseErr
    \/ XlsxCollect
    \/ XlsxCollectEnd
    \/ XlsxFinish

\* ------------------------------------------------------------ export calls
ExportInit ==
    /\ headers \in SampleHeaders
    /\ \E n \in 0..MaxRows : rows = SampleRows(n)
    /\ cfgMode \in Modes
    /\ cfgFormat \in {"csv", "xlsx", "pdf"}
    /\ cfgChunkSize \in 0..MaxChunkSize
    /\ cfgWorkers \in 0..MaxWorkers
    /\ executor \in {"sync", "parallel", "pool"}
    /\ pc = "entry"
    /\ Idle
    /\ NoIo /\ NoFn /\ NoNode
    /\ cfgSplit = FALSE /\ cfgZip = FALSE /\ cfgIncludeHeaders = TRUE
    /\ splitResult = NilResult
    /\ NoPool

ExportNext ==
    \/ SyncExecutorExecute
    \/ ParallelExecutorExecute
    \/ PoolProcessorProcess
    \/ CsvNext
    \/ XlsxNext

SpecExport == ExportInit /\ [][ExportNext]_vars

\* ------------------------------------------------------------ splitzip.Splitter
\* chunkSize and workers as the splitter reads them
SplitChunkSize == IF cfgChunkSize <= 0 THEN DefaultChunkSize ELSE cfgChunkSize
SplitWorkers == IF cfgWorkers <= 0 THEN DefaultWorkers ELSE cfgWorkers

\* a part count rounded down instead of up
NumPartsFloor(totalRows, chunkSize) ==
    LET n == totalRows \div chunkSize IN IF n = 0 THEN 1 ELSE n

\* Go's int, here IntBits wide: the values MinInt..MaxInt in two's complement
IntBits == 16
MaxInt == 2^(IntBits - 1) - 1
MinInt == -(2^(IntBits - 1))

\* the int an arithmetic result x is stored as: x modulo 2^IntBits
WrapInt(x) == ((x - MinInt) % 2^IntBits) + MinInt

\* a / b of Go for b > 0: the quotient truncated toward zero
QuoInt(a, b) == IF a >= 0 THEN a \div b ELSE -((-a) \div b)

\* numParts := (totalRows + chunkSize - 1) / chunkSize, and 1 when that is 0
NumParts(totalRows, chunkSize) ==
    LET n == QuoInt(WrapInt(totalRows + chunkSize - 1), chunkSize) IN IF n = 0 THEN 1 ELSE n

\* rows[startIdx:endIdx] of part partIdx (0-based)
PartRows(rs, partIdx, chunkSize) ==
    LET startIdx == partIdx * chunkSize
        endIdx == IF startIdx + chunkSize > Len(rs) THEN Len(rs) ELSE startIdx + chunkSize
    IN  SubSeq(rs, startIdx + 1, endIdx)

\* Splitter.getPartFilename
getPartFilename(partIdx) ==
    "part_" \o ToString(partIdx + 1) \o "." \o (IF cfgFormat = "xlsx" THEN "xlsx" ELSE "csv")

\* writeCSVPartToZip: the records written into the entry
writeCSVPartToZip(hs, rs, includeHeaders) ==
    (IF includeHeaders /\ Len(hs) > 0 THEN <<hs>> ELSE <<>>)
        \o [i \in 1..Len(rs) |-> RowRecord(rs[i])]

\* a part encoder that leaves the header record out
generateCSVPartDataNoHeader(hs, rs, includeHeaders) ==
    [i \in 1..Len(rs) |-> RowRecord(rs[i])]

\* generateCSVPartData: the records written into the part's buffer
generateCSVPartData(hs, rs, includeHeaders) ==
    (IF includeHeaders /\ Len(hs) > 0 THEN <<hs>> ELSE <<>>)
        \o [i \in 1..Len(rs) |-> RowRecord(rs[i])]

\* the part writer's own columnName
partColumnName(col) == columnNameLoop(col + 1, <<>>)

\* the part writer's buildRowXML
partBuildRowXML(rowNum, cells) ==
    [tag |-> "row",
     r |-> Itoa(rowNum),
     cells |-> [j \in 1..Len(cells) |->
                  [ref |-> partColumnName(j - 1) \o Itoa(rowNum), t |-> EscapeString(cells[j])]]]

\* a writeSheet that writes the header row whatever includeHeaders is
partWriteSheetAlwaysHeader(hs, rs, includeHeaders) ==
    LET withHeader == Len(hs) > 0
        rowNum == IF withHeader THEN 2 ELSE 1
    IN  <<SheetHeader>>
            \o (IF withHeader THEN <<partBuildRowXML(1, hs)>> ELSE <<>>)
            \o [i \in 1..Len(rs) |-> partBuildRowXML(rowNum + i - 1, RowRecord(rs[i]))]
            \o <<SheetFooter>>

\* the part writer's writeSheet: header row only with includeHeaders, rows from rowNum
partWriteSheet(hs, rs, includeHeaders) ==
    LET withHeader == includeHeaders /\ Len(hs) > 0
        rowNum == IF withHeader THEN 2 ELSE 1
    IN  <<SheetHeader>>
            \o (IF withHeader THEN <<partBuildRowXML(1, hs)>> ELSE <<>>)
            \o [i \in 1..Len(rs) |-> partBuildRowXML(rowNum + i - 1, RowRecord(rs[i]))]
            \o <<SheetFooter>>

\* writeXLSXStructure: the five entries of a part's workbook
writeXLSXStructure(hs, rs, includeHeaders) ==
    << [name |-> "[Content_Types].xml", data |-> <<"content-types">>],
       [name |-> "_rels/.rels", data |-> <<"root-rels">>],
       [name |-> "xl/_rels/workbook.xml.rels", data |-> <<"workbook-rels">>],
       [name |-> "xl/workbook.xml", data |-> <<"workbook">>],
       [name |-> "xl/worksheets/sheet1.xml", data |-> partWriteSheet(hs, rs, includeHeaders)] >>

\* Splitter.writePartToZip: what is written into the entry, or the error
writePartToZip(hs, rs) ==
    CASE cfgFormat = "csv" -> [data |-> writeCSVPartToZip(hs, rs, cfgIncludeHeaders), err |-> "nil"]
      [] cfgFormat = "xlsx" -> [data |-> writeXLSXStructure(hs, rs, cfgIncludeHeaders), err |-> "nil"]
      [] OTHER -> [data |-> <<>>, err |-> "unsupported format"]

\* Splitter.generatePartData: the part's bytes, or the error
generatePartData(hs, rs) ==
    CASE cfgFormat = "csv" -> [data |-> generateCSVPartData(hs, rs, cfgIncludeHeaders), err |-> "nil"]
      [] cfgFormat = "xlsx" -> [data |-> writeXLSXStructure(hs, rs, cfgIncludeHeaders), err |-> "nil"]
      [] OTHER -> [data |-> <<>>, err |-> "unsupported format"]

\* the number of parts of the running call
SplitNumParts == NumParts(Len(rows), SplitChunkSize)

\* Splitter.Execute up to the switch on the mode
\* a test that rejects the configuration only when split and zip are both off
NeitherEnabled(split, zip) == ~split /\ ~zip

\* Splitter.Execute's test: if !s.config.Split || !s.config.Zip
NotBothEnabled(split, zip) == ~split \/ ~zip

SplitterExecute ==
    /\ pc = "entry"
    /\ executor = "splitter"
    /\ IF NotBothEnabled(cfgSplit, cfgZip)
       THEN /\ ret' = "split and zip must both be enabled"
            /\ pc' = "done"
            /\ UNCHANGED fileCreated
       ELSE /\ fileCreated' = TRUE
            /\ pc' = IF cfgMode \in {"parallel", "global_pool"} THEN "executeParallel"
                                                                 ELSE "executeSync"
            /\ UNCHANGED ret
    /\ UNCHANGED <<poolVars, globalVars, ioVars, fnVars, nodeVars, splitVars, jobVars, cfgMode, component, taskVars, chanVars, closerPc,
                   results, out, archive>>

RECURSIVE syncParts(_, _, _)
\* the loop of executeSync from part partIdx: the entries written, and the error that stops it
syncParts(partIdx, numParts, chunkSize) ==
    IF partIdx >= numParts
    THEN [entries |-> <<>>, err |-> "nil"]
    ELSE LET w == writePartToZip(headers, PartRows(rows, partIdx, chunkSize))
         IN  IF w.err # "nil"
             THEN [entries |-> <<>>,
                   err |-> "failed to write part " \o ToString(partIdx + 1) \o ": " \o w.err]
             ELSE LET rest == syncParts(partIdx + 1, numParts, chunkSize)
                  IN  [entries |-> <<[name |-> getPartFilename(partIdx), data |-> w.data]>>
                                      \o rest.entries,
                       err |-> rest.err]

\* the *SplitZipResult of a successful call
SplitZipResult(numParts, totalRows, partFiles) ==
    [set |-> TRUE, TotalParts |-> numParts, TotalRows |-> totalRows, PartFiles |-> partFiles]

\* Splitter.executeSync and Execute's return: every part streamed into the archive in turn
ExecuteSync ==
    /\ pc = "executeSync"
    /\ component' = "split"
    /\ LET r == syncParts(0, SplitNumParts, SplitChunkSize)
       IN  /\ archive' = archive \o r.entries
           /\ ret' = r.err
           /\ splitResult' = IF r.err # "nil" THEN NilResult
                              ELSE SplitZipResult(SplitNumParts, Len(rows),
                                       [i \in 1..Len(r.entries) |-> r.entries[i].name])
    /\ pc' = "done"
    /\ UNCHANGED <<poolVars, globalVars, ioVars, fnVars, nodeVars, cfgSplit, cfgZip, cfgIncludeHeaders, fileCreated, jobVars, cfgMode,
                   taskVars, chanVars, closerPc, results, out>>

\* Splitter.executeParallel up to the dispatch loop
ExecuteParallelBegin ==
    /\ pc = "executeParallel"
    /\ component' = "split"
    /\ pc' = "spawn"
    /\ UNCHANGED <<poolVars, globalVars, ioVars, fnVars, nodeVars, splitVars, fileCreated, jobVars, cfgMode, taskVars, chanVars, closerPc,
                   results, out, archive, ret>>

\* one turn of the dispatch loop: wg.Add(1) and go func(partIdx, partRows)
SplitSpawn ==
    /\ pc = "spawn" /\ component = "split"
    /\ spawned < SplitNumParts
    /\ wg' = wg + 1
    /\ taskPc' = [i \in 0..spawned |-> IF i = spawned THEN "start" ELSE taskPc[i]]
    /\ spawned' = spawned + 1
    /\ UNCHANGED <<poolVars, globalVars, ioVars, fnVars, nodeVars, splitVars, fileCreated, jobVars, cfgMode, pc, component, semaphore,
                   chanVars, closerPc, results, out, archive, ret>>

\* after the loop: the closing goroutine is started and the results slice made empty
SplitSpawnEnd ==
    /\ pc = "spawn" /\ component = "split"
    /\ spawned = SplitNumParts
    /\ closerPc' = "wait"
    /\ results' = <<>>
    /\ pc' = "collect"
    /\ UNCHANGED <<poolVars, globalVars, ioVars, fnVars, nodeVars, splitVars, fileCreated, jobVars, cfgMode, component, taskVars, chanVars,
                   out, archive, ret>>

\* semaphore <- struct{}{}
SplitTaskAcquire(i) ==
    /\ component = "split"
    /\ taskPc[i] = "start"
    /\ Acquirable(semaphore, SplitWorkers)
    /\ semaphore' = semaphore + 1
    /\ taskPc' = [taskPc EXCEPT ![i] = "run"]
    /\ UNCHANGED <<poolVars, globalVars, ioVars, fnVars, nodeVars, splitVars, fileCreated, jobVars, cfgMode, pc, component, spawned, wg,
                   chanVars, closerPc, results, out, archive, ret>>

\* cap(errChan): make(chan error, workers)
ErrChanCap(workers) == workers

\* generatePartData, then the send of the error (blocking while errChan is full)
\* or of the PartResult
SplitTaskProcess(i) ==
    /\ component = "split"
    /\ taskPc[i] = "run"
    /\ LET data == PartRows(rows, i, SplitChunkSize)
           p == generatePartData(headers, data)
       IN  IF p.err # "nil"
           THEN /\ Len(errChan) < ErrChanCap(SplitWorkers)
                /\ errChan' = Append(errChan, "part " \o ToString(i + 1) \o ": " \o p.err)
                /\ UNCHANGED resultChan
           ELSE /\ Len(resultChan) < SplitNumParts
                /\ resultChan' = Append(resultChan,
                        [PartIndex |-> i, Data |-> p.data, RowCount |-> Len(data)])
                /\ UNCHANGED errChan
    /\ taskPc' = [taskPc EXCEPT ![i] = "release"]
    /\ UNCHANGED <<poolVars, globalVars, ioVars, fnVars, nodeVars, splitVars, fileCreated, jobVars, cfgMode, pc, component, spawned, wg,
                   semaphore, resultClosed, errClosed, closerPc, results, out, archive, ret>>

\* the deferred <-semaphore
SplitTaskRelease(i) ==
    /\ component = "split"
    /\ taskPc[i] = "release"
    /\ semaphore' = semaphore - 1
    /\ taskPc' = [taskPc EXCEPT ![i] = "wgdone"]
    /\ UNCHANGED <<poolVars, globalVars, ioVars, fnVars, nodeVars, splitVars, fileCreated, jobVars, cfgMode, pc, component, spawned, wg,
                   chanVars, closerPc, results, out, archive, ret>>

\* the deferred wg.Done()
SplitTaskDone(i) ==
    /\ component = "split"
    /\ taskPc[i] = "wgdone"
    /\ wg' = wg - 1
    /\ taskPc' = [taskPc EXCEPT ![i] = "done"]
    /\ UNCHANGED <<poolVars, globalVars, ioVars, fnVars, nodeVars, splitVars, fileCreated, jobVars, cfgMode, pc, component, spawned,
                   semaphore, chanVars, closerPc, results, out, archive, ret>>

\* wg.Wait() returns, close(resultChan)
SplitCloserCloseResults ==
    /\ component = "split"
    /\ closerPc = "wait"
    /\ WaitReturned(wg)
    /\ resultClosed' = TRUE
    /\ closerPc' = "closeErr"
    /\ UNCHANGED <<poolVars, globalVars, ioVars, fnVars, nodeVars, splitVars, fileCreated, jobVars, cfgMode, pc, component, taskVars,
                   resultChan, errChan, errClosed, results, out, archive, ret>>

\* close(errChan)
SplitCloserCloseErr ==
    /\ component = "split"
    /\ closerPc = "closeErr"
    /\ errClosed' = TRUE
    /\ closerPc' = "done"
    /\ UNCHANGED <<poolVars, globalVars, ioVars, fnVars, nodeVars, splitVars, fileCreated, jobVars, cfgMode, pc, component, taskVars,
                   resultChan, errChan, resultClosed, results, out, archive, ret>>

\* one turn of `for result := range resultChan`: results = append(results, result)
SplitCollect ==
    /\ pc = "collect" /\ component = "split"
    /\ resultChan # <<>>
    /\ results' = Append(results, Head(resultChan))
    /\ resultChan' = Tail(resultChan)
    /\ UNCHANGED <<poolVars, globalVars, ioVars, fnVars, nodeVars, splitVars, fileCreated, jobVars, cfgMode, pc, component, taskVars,
                   errChan, resultClosed, errClosed, closerPc, out, archive, ret>>

\* the range loop ends: resultChan is closed and drained
SplitCollectEnd ==
    /\ pc = "collect" /\ component = "split"
    /\ RangeEnds(resultChan, resultClosed)
    /\ pc' = "checkErr"
    /\ UNCHANGED <<poolVars, globalVars, ioVars, fnVars, nodeVars, splitVars, fileCreated, jobVars, cfgMode, component, taskVars, chanVars,
                   closerPc, results, out, archive, ret>>

RECURSIVE insertByIndex(_, _)
\* r put into a slice sorted by PartIndex
insertByIndex(sorted, r) ==
    IF sorted = <<>> THEN <<r>>
    ELSE IF r.PartIndex < Head(sorted).PartIndex THEN <<r>> \o sorted
    ELSE <<Head(sorted)>> \o insertByIndex(Tail(sorted), r)

RECURSIVE sortFrom(_, _)
sortFrom(rs, sorted) ==
    IF rs = <<>> THEN sorted ELSE sortFrom(Tail(rs), insertByIndex(sorted, Head(rs)))

\* the results left in arrival order
sortSkipped(rs) == rs

\* sort.Slice(results, by PartIndex)
sortByPartIndex(rs) == sortFrom(rs, <<>>)

\* the select on errChan: an error is received when one is buffered
errReceived(ch) == ch # <<>>

\* the non-blocking select on errChan, then the sorted parts written into the archive,
\* and Execute's return
SplitFinish ==
    /\ pc = "checkErr" /\ component = "split"
    /\ IF errReceived(errChan)
       THEN /\ ret' = Head(errChan)
            /\ errChan' = Tail(errChan)
            /\ splitResult' = NilResult
            /\ UNCHANGED <<archive, results>>
       ELSE LET sorted == sortByPartIndex(results)
            IN  /\ results' = sorted
                /\ archive' = archive \o [i \in 1..Len(sorted) |->
                                  [name |-> getPartFilename(sorted[i].PartIndex),
                                   data |-> sorted[i].Data]]
                /\ ret' = "nil"
                /\ splitResult' = SplitZipResult(SplitNumParts, Len(rows),
                                      [i \in 1..Len(sorted) |-> getPartFilename(sorted[i].PartIndex)])
                /\ UNCHANGED errChan
    /\ pc' = "done"
    /\ UNCHANGED <<poolVars, globalVars, ioVars, fnVars, nodeVars, cfgSplit, cfgZip, cfgIncludeHeaders, fileCreated, jobVars, cfgMode,
                   component, taskVars, resultChan, resultClosed, errClosed, closerPc, out>>

SplitTaskStep ==
    \E i \in DOMAIN taskPc :
        \/ SplitTaskAcquire(i)
        \/ SplitTaskProcess(i)
        \/ SplitTaskRelease(i)
        \/ SplitTaskDone(i)

SplitInit ==
    /\ headers \in SampleHeaders
    /\ \E n \in 0..MaxRows : rows = SampleRows(n)
    /\ cfgMode \in Modes
    /\ cfgFormat \in {"csv", "xlsx", "pdf"}
    /\ cfgChunkSize \in 0..MaxChunkSize
    /\ cfgWorkers \in 0..MaxWorkers
    /\ executor = "splitter"
    /\ cfgSplit \in BOOLEAN /\ cfgZip \in BOOLEAN
    /\ cfgIncludeHeaders \in BOOLEAN
    /\ splitResult = NilResult
    /\ pc = "entry"
    /\ Idle
    /\ NoIo /\ NoFn /\ NoNode
    /\ NoPool

SplitNext ==
    \/ SplitterExecute
    \/ ExecuteSync
    \/ ExecuteParallelBegin
    \/ SplitSpawn
    \/ SplitSpawnEnd
    \/ SplitTaskStep
    \/ SplitCloserCloseResults
    \/ SplitCloserCloseErr
    \/ SplitCollect
    \/ SplitCollectEnd
    \/ SplitFinish

SpecSplit == SplitInit /\ [][SplitNext]_vars

\* ------------------------------------------------------------ the chunked parallel runs
\* a call that takes the chunked parallel path of the CSV writer, of the
\* spreadsheet builder or of the splitter
ChunkedInit ==
    \/ ExportInit /\ executor = "parallel" /\ cfgFormat \in {"csv", "xlsx"}
    \/ SplitInit /\ cfgSplit /\ cfgZip /\ cfgMode = "parallel"

ChunkedNext ==
    \/ ParallelExecutorExecute
    \/ WriteParallelBegin
    \/ CsvSpawn
    \/ CsvSpawnEnd
    \/ CsvTaskStep
    \/ CsvCloserCloseResults
    \/ CsvCloserCloseErr
    \/ CsvCollect
    \/ CsvCollectEnd
    \/ CsvFinish
    \/ BuildParallelBegin
    \/ XlsxSpawn
    \/ XlsxSpawnEnd
    \/ XlsxTaskStep
    \/ XlsxCloserCloseResults
    \/ XlsxCloserCloseErr
    \/ XlsxCollect
    \/ XlsxCollectEnd
    \/ XlsxFinish
    \/ SplitterExecute
    \/ ExecuteParallelBegin
    \/ SplitSpawn
    \/ SplitSpawnEnd
    \/ SplitTaskStep
    \/ SplitCloserCloseResults
    \/ SplitCloserCloseErr
    \/ SplitCollect
    \/ SplitCollectEnd
    \/ SplitFinish

SpecChunked == ChunkedInit /\ [][ChunkedNext]_vars

\* ------------------------------------------------------------ worker.Pool
DefaultPoolWorkers == 1
DefaultQueueSize == 100

\* NewPool: the worker count and the queue capacity it keeps
NewPoolWorkers(workers) == IF workers <= 0 THEN DefaultPoolWorkers ELSE workers
NewPoolQueueSize(queueSize) == IF queueSize <= 0 THEN DefaultQueueSize ELSE queueSize

Threads == 1..MaxThreads
Workers == 1..MaxWorkers

\* the state of an export call that is not running
NoExport ==
    /\ headers = <<>> /\ rows = <<>>
    /\ cfgMode = "sync" /\ cfgFormat = "csv" /\ cfgChunkSize = 0 /\ cfgWorkers = 0
    /\ executor = "none" /\ pc = "none"
    /\ cfgSplit = FALSE /\ cfgZip = FALSE /\ cfgIncludeHeaders = TRUE
    /\ splitResult = NilResult
    /\ Idle
    /\ NoIo /\ NoFn /\ NoNode

\* the client threads are interchangeable: they are numbered in the order of their calls' names
OpRank(op) == CASE op = "Start" -> 1 [] op = "Submit" -> 2 [] op = "Shutdown" -> 3

\* the package variables of the shared pool before their first use, and client
\* threads that call the pool directly
NoGlobal ==
    /\ globalPoolExecutor = 0
    /\ execQueue = [t \in Threads |-> "nil"]
    /\ globalQueueOnce = "new"
    /\ globalQueue = "nil"
    /\ poolsCreated = 1
    /\ threadExec = [t \in Threads |-> 0]
    /\ threadCaller = [t \in Threads |-> "none"]
    /\ execRet = [t \in Threads |-> "none"]

\* NewPool(workers, queueSize, processor), and the calls the client threads will make:
\* thread t that submits, submits job t
PoolInit ==
    /\ \E w \in 0..MaxWorkers : poolWorkers = NewPoolWorkers(w)
    /\ \E q \in 1..MaxQueue : queueCap = NewPoolQueueSize(q)
    /\ jobQueue = <<>>
    /\ queueClosed = FALSE
    /\ poolWg = 0
    /\ onceState = "new"
    /\ stopped = FALSE
    /\ mu = 0
    /\ workerPc = [w \in 1..poolWorkers |-> "unborn"]
    /\ workerJob = [w \in 1..poolWorkers |-> 0]
    /\ threadOp \in {ops \in [Threads -> {"Start", "Submit", "Shutdown"}] :
                        /\ \E t \in Threads : ops[t] = "Submit"
                        /\ \A t \in Threads \ {1} : OpRank(ops[t - 1]) <= OpRank(ops[t])}
    /\ threadPc = [t \in Threads |-> "call"]
    /\ startLoop = 0
    /\ jobHasResult \in {[t \in Threads |-> TRUE], [t \in Threads |-> t % 2 = 1]}
    /\ jobOutcome = [t \in Threads |-> IF t % 2 = 1 THEN "nil" ELSE "unsupported format: pdf"]
    /\ slot = [t \in Threads |-> <<>>]
    /\ slotClosed = [t \in Threads |-> FALSE]
    /\ dequeues = [t \in Threads |-> 0]
    /\ processed = [t \in Threads |-> 0]
    /\ panicked = "none"
    /\ NoExport
    /\ NoGlobal

\* A panic ends the process: no step is taken once panicked is set.

\* a once.Do that runs its function on every call
OnceRunsAgain(state) == TRUE

\* sync.Once: Do runs its function only on the first call
OnceRuns(state) == state = "new"

\* Pool.Start: once.Do is entered by the first caller; a later caller returns at once,
\* a concurrent one waits until the first has finished
StartCall(t) ==
    /\ panicked = "none"
    /\ threadOp[t] = "Start" /\ threadPc[t] = "call"
    /\ onceState # "running"
    /\ IF OnceRuns(onceState)
       THEN /\ onceState' = "running"
            /\ startLoop' = 0
            /\ threadPc' = [threadPc EXCEPT ![t] = "loop"]
       ELSE /\ threadPc' = [threadPc EXCEPT ![t] = "returned"]
            /\ UNCHANGED <<onceState, startLoop>>
    /\ UNCHANGED <<exportVars, ioVars, fnVars, nodeVars, globalVars, poolWorkers, queueCap, jobQueue, queueClosed, poolWg, stopped, mu,
                   workerPc, workerJob, threadOp, jobHasResult, jobOutcome, slot, slotClosed,
                   dequeues, processed, panicked>>

\* one turn of Start's loop: p.wg.Add(1); go p.worker(i)
StartSpawn(t) ==
    /\ panicked = "none"
    /\ threadOp[t] = "Start" /\ threadPc[t] = "loop"
    /\ startLoop < poolWorkers
    /\ poolWg' = poolWg + 1
    /\ workerPc' = [workerPc EXCEPT ![startLoop + 1] = "recv"]
    /\ startLoop' = startLoop + 1
    /\ UNCHANGED <<exportVars, ioVars, fnVars, nodeVars, globalVars, poolWorkers, queueCap, jobQueue, queueClosed, onceState, stopped, mu,
                   workerJob, threadOp, threadPc, jobHasResult, jobOutcome, slot, slotClosed,
                   dequeues, processed, panicked>>

\* Start's loop ends and once.Do returns
StartReturn(t) ==
    /\ panicked = "none"
    /\ threadOp[t] = "Start" /\ threadPc[t] = "loop"
    /\ startLoop = poolWorkers
    /\ onceState' = "done"
    /\ threadPc' = [threadPc EXCEPT ![t] = "returned"]
    /\ UNCHANGED <<exportVars, ioVars, fnVars, nodeVars, globalVars, poolWorkers, queueCap, jobQueue, queueClosed, poolWg, stopped, mu,
                   workerPc, workerJob, threadOp, startLoop, jobHasResult, jobOutcome, slot,
                   slotClosed, dequeues, processed, panicked>>

\* p.mu.Lock() in Submit and in Shutdown
Lock(t) ==
    /\ panicked = "none"
    /\ threadOp[t] \in {"Submit", "Shutdown"} /\ threadPc[t] = "call"
    /\ mu = 0
    /\ mu' = t
    /\ threadPc' = [threadPc EXCEPT ![t] = "check"]
    /\ UNCHANGED <<exportVars, ioVars, fnVars, nodeVars, globalVars, poolWorkers, queueCap, jobQueue, queueClosed, poolWg, onceState,
                   stopped, workerPc, workerJob, threadOp, startLoop, jobHasResult, jobOutcome,
                   slot, slotClosed, dequeues, processed, panicked>>

\* the deferred p.mu.Unlock() in Submit and in Shutdown
Unlock(t) ==
    /\ panicked = "none"
    /\ threadOp[t] \in {"Submit", "Shutdown"} /\ threadPc[t] = "unlock"
    /\ mu' = 0
    /\ threadPc' = [threadPc EXCEPT ![t] = "returned"]
    /\ UNCHANGED <<exportVars, ioVars, fnVars, nodeVars, globalVars, poolWorkers, queueCap, jobQueue, queueClosed, poolWg, onceState,
                   stopped, workerPc, workerJob, threadOp, startLoop, jobHasResult, jobOutcome,
                   slot, slotClosed, dequeues, processed, panicked>>

\* Submit that sends whatever p.stopped is
SubmitSendsAlways(isStopped) == TRUE

\* Submit's test: if !p.stopped
SubmitSends(isStopped) == ~isStopped

\* Submit: the test of p.stopped under the mutex
SubmitCheck(t) ==
    /\ panicked = "none"
    /\ threadOp[t] = "Submit" /\ threadPc[t] = "check"
    /\ threadPc' = [threadPc EXCEPT ![t] = IF SubmitSends(stopped) THEN "send" ELSE "unlock"]
    /\ UNCHANGED <<exportVars, ioVars, fnVars, nodeVars, globalVars, poolWorkers, queueCap, jobQueue, queueClosed, poolWg, onceState,
                   stopped, mu, workerPc, workerJob, threadOp, startLoop, jobHasResult,
                   jobOutcome, slot, slotClosed, dequeues, processed, panicked>>

\* a channel that takes a value whatever it holds
HasRoomAlways(ch, capacity) == TRUE

\* a send on a buffered channel goes through when the buffer is not full
HasRoom(ch, capacity) == Len(ch) < capacity

\* Submit: p.jobQueue <- job, which blocks while the queue is full and panics
\* once the queue is closed
SubmitSend(t) ==
    /\ panicked = "none"
    /\ threadOp[t] = "Submit" /\ threadPc[t] = "send"
    /\ IF queueClosed
       THEN /\ panicked' = "send on closed channel"
            /\ UNCHANGED <<jobQueue, threadPc>>
       ELSE /\ HasRoom(jobQueue, queueCap)
            /\ jobQueue' = Append(jobQueue, t)
            /\ threadPc' = [threadPc EXCEPT ![t] = "unlock"]
            /\ UNCHANGED panicked
    /\ UNCHANGED <<exportVars, ioVars, fnVars, nodeVars, globalVars, poolWorkers, queueCap, queueClosed, poolWg, onceState, stopped, mu,
                   workerPc, workerJob, threadOp, startLoop, jobHasResult, jobOutcome, slot,
                   slotClosed, dequeues, processed>>

\* a Shutdown that closes the queue whatever p.stopped is
ShutdownClosesAlways(isStopped) == TRUE

\* Shutdown's test: if !p.stopped
ShutdownCloses(isStopped) == ~isStopped

\* Shutdown: the test of p.stopped, and p.stopped = true
ShutdownCheck(t) ==
    /\ panicked = "none"
    /\ threadOp[t] = "Shutdown" /\ threadPc[t] = "check"
    /\ IF ShutdownCloses(stopped)
       THEN /\ stopped' = TRUE
            /\ threadPc' = [threadPc EXCEPT ![t] = "close"]
       ELSE /\ threadPc' = [threadPc EXCEPT ![t] = "unlock"]
            /\ UNCHANGED stopped
    /\ UNCHANGED <<exportVars, ioVars, fnVars, nodeVars, globalVars, poolWorkers, queueCap, jobQueue, queueClosed, poolWg, onceState, mu,
                   workerPc, workerJob, threadOp, startLoop, jobHasResult, jobOutcome, slot,
                   slotClosed, dequeues, processed, panicked>>

\* Shutdown: close(p.jobQueue), which panics when the queue is closed already
ShutdownClose(t) ==
    /\ panicked = "none"
    /\ threadOp[t] = "Shutdown" /\ threadPc[t] = "close"
    /\ IF queueClosed
       THEN /\ panicked' = "close of closed channel"
            /\ UNCHANGED <<queueClosed, threadPc>>
       ELSE /\ queueClosed' = TRUE
            /\ threadPc' = [threadPc EXCEPT ![t] = "wait"]
            /\ UNCHANGED panicked
    /\ UNCHANGED <<exportVars, ioVars, fnVars, nodeVars, globalVars, poolWorkers, queueCap, jobQueue, poolWg, onceState, stopped, mu,
                   workerPc, workerJob, threadOp, startLoop, jobHasResult, jobOutcome, slot,
                   slotClosed, dequeues, processed>>

\* a Wait that returns at once
WaitReturnsAlways(counter) == TRUE

\* sync.WaitGroup: Wait returns when the counter is zero
WaitReturns(counter) == counter = 0

\* Shutdown: p.wg.Wait() returns when the counter is zero
ShutdownWait(t) ==
    /\ panicked = "none"
    /\ threadOp[t] = "Shutdown" /\ threadPc[t] = "wait"
    /\ WaitReturns(poolWg)
    /\ threadPc' = [threadPc EXCEPT ![t] = "unlock"]
    /\ UNCHANGED <<exportVars, ioVars, fnVars, nodeVars, globalVars, poolWorkers, queueCap, jobQueue, queueClosed, poolWg, onceState,
                   stopped, mu, workerPc, workerJob, threadOp, startLoop, jobHasResult,
                   jobOutcome, slot, slotClosed, dequeues, processed, panicked>>

\* worker: one turn of `for job := range p.jobQueue`
WorkerReceive(w) ==
    /\ panicked = "none"
    /\ w \in DOMAIN workerPc
    /\ workerPc[w] = "recv"
    /\ jobQueue # <<>>
    /\ workerJob' = [workerJob EXCEPT ![w] = Head(jobQueue)]
    /\ jobQueue' = Tail(jobQueue)
    /\ dequeues' = [dequeues EXCEPT ![Head(jobQueue)] = @ + 1]
    /\ workerPc' = [workerPc EXCEPT ![w] = "process"]
    /\ UNCHANGED <<exportVars, ioVars, fnVars, nodeVars, globalVars, poolWorkers, queueCap, queueClosed, poolWg, onceState, stopped, mu,
                   threadOp, threadPc, startLoop, jobHasResult, jobOutcome, slot, slotClosed,
                   processed, panicked>>

\* worker: the range loop ends on the closed and drained queue; the deferred wg.Done()
WorkerExit(w) ==
    /\ panicked = "none"
    /\ w \in DOMAIN workerPc
    /\ workerPc[w] = "recv"
    /\ jobQueue = <<>> /\ queueClosed
    /\ poolWg' = poolWg - 1
    /\ workerPc' = [workerPc EXCEPT ![w] = "exited"]
    /\ UNCHANGED <<exportVars, ioVars, fnVars, nodeVars, globalVars, poolWorkers, queueCap, jobQueue, queueClosed, onceState, stopped, mu,
                   workerJob, threadOp, threadPc, startLoop, jobHasResult, jobOutcome, slot,
                   slotClosed, dequeues, processed, panicked>>

\* worker: err := p.processor.Process(job)
WorkerProcess(w) ==
    /\ panicked = "none"
    /\ w \in DOMAIN workerPc
    /\ workerPc[w] = "process"
    /\ processed' = [processed EXCEPT ![workerJob[w]] = @ + 1]
    /\ workerPc' = [workerPc EXCEPT ![w] = "deliver"]
    /\ UNCHANGED <<exportVars, ioVars, fnVars, nodeVars, globalVars, poolWorkers, queueCap, jobQueue, queueClosed, poolWg, onceState,
                   stopped, mu, workerJob, threadOp, threadPc, startLoop, jobHasResult,
                   jobOutcome, slot, slotClosed, dequeues, panicked>>

\* a worker that never delivers
DeliversNever(j) == FALSE

\* worker's test: if job.Result != nil
Delivers(j) == jobHasResult[j]

\* a worker that ends when the processor failed
AfterDeliverEndsOnError(err) == IF err = "nil" THEN "recv" ELSE "exited"

\* worker: after the delivery the range loop takes its next turn, whatever err is
AfterDeliver(err) == "recv"

\* worker: job.Result <- err and close(job.Result), when the job has a completion slot
WorkerDeliver(w) ==
    /\ panicked = "none"
    /\ w \in DOMAIN workerPc
    /\ workerPc[w] = "deliver"
    /\ LET j == workerJob[w]
       IN  IF ~Delivers(j)
           THEN /\ workerPc' = [workerPc EXCEPT ![w] = "recv"]
                /\ workerJob' = [workerJob EXCEPT ![w] = 0]
                /\ UNCHANGED <<slot, slotClosed, panicked>>
           ELSE IF slotClosed[j]
           THEN /\ panicked' = "send on closed channel"
                /\ UNCHANGED <<slot, slotClosed, workerPc, workerJob>>
           ELSE /\ Len(slot[j]) < 1
                /\ slot' = [slot EXCEPT ![j] = Append(@, jobOutcome[j])]
                /\ slotClosed' = [slotClosed EXCEPT ![j] = TRUE]
                /\ workerPc' = [workerPc EXCEPT ![w] = AfterDeliver(jobOutcome[j])]
                /\ workerJob' = [workerJob EXCEPT ![w] = 0]
                /\ UNCHANGED panicked
    /\ UNCHANGED <<exportVars, ioVars, fnVars, nodeVars, globalVars, poolWorkers, queueCap, jobQueue, queueClosed, poolWg, onceState,
                   stopped, mu, threadOp, threadPc, startLoop, jobHasResult, jobOutcome,
                   dequeues, processed>>

StartStep == \E t \in Threads : StartCall(t) \/ StartSpawn(t) \/ StartReturn(t)

SubmitStep == \E t \in Threads : SubmitCheck(t) \/ SubmitSend(t)

ShutdownStep == \E t \in Threads : ShutdownCheck(t) \/ ShutdownClose(t) \/ ShutdownWait(t)

MutexStep == \E t \in Threads : Lock(t) \/ Unlock(t)

WorkerStep ==
    \E w \in Workers : WorkerReceive(w) \/ WorkerExit(w) \/ WorkerProcess(w) \/ WorkerDeliver(w)

PoolNext ==
    \/ StartStep
    \/ SubmitStep
    \/ ShutdownStep
    \/ MutexStep
    \/ WorkerStep

SpecPool == PoolInit /\ [][PoolNext]_vars

\* ------------------------------------------------------------ shared pool
GlobalQueueSize == 1000

Callers == 1..MaxCallers

\* the process before the first global_pool call; caller t will call
\* NewPoolExecutor(config.Workers) and then Execute(job t)
GlobalInitWith(closers) ==
    /\ headers = <<>> /\ rows = <<>>
    /\ cfgMode = "global_pool" /\ cfgFormat = "csv" /\ cfgChunkSize = 0
    /\ cfgWorkers \in 0..MaxWorkers
    /\ executor = "none" /\ pc = "none"
    /\ cfgSplit = FALSE /\ cfgZip = FALSE /\ cfgIncludeHeaders = TRUE
    /\ splitResult = NilResult
    /\ Idle
    /\ NoIo /\ NoFn /\ NoNode
    /\ poolWorkers = 0
    /\ queueCap = 0
    /\ jobQueue = <<>>
    /\ queueClosed = FALSE
    /\ poolWg = 0
    /\ onceState = "new"
    /\ stopped = FALSE
    /\ mu = 0
    /\ workerPc = <<>>
    /\ workerJob = <<>>
    /\ threadOp = [t \in Threads |-> CASE t \in Callers -> "GlobalPool"
                                        [] t \in closers -> "ExecutorShutdown"
                                        [] OTHER -> "none"]
    /\ threadPc = [t \in Threads |-> IF t \in Callers \cup closers THEN "call" ELSE "returned"]
    /\ startLoop = 0
    /\ jobHasResult \in {[t \in Threads |-> FALSE], [t \in Threads |-> t % 2 = 1]}
    /\ jobOutcome = [t \in Threads |-> IF t % 2 = 1 THEN "nil" ELSE "unsupported format: pdf"]
    /\ slot = [t \in Threads |-> <<>>]
    /\ slotClosed = [t \in Threads |-> FALSE]
    /\ dequeues = [t \in Threads |-> 0]
    /\ processed = [t \in Threads |-> 0]
    /\ panicked = "none"
    /\ globalPoolExecutor = 0
    /\ execQueue = [t \in Threads |-> "nil"]
    /\ globalQueueOnce = "new"
    /\ globalQueue = "nil"
    /\ poolsCreated = 0
    /\ threadExec = [t \in Threads |-> 0]
    /\ threadCaller = [t \in Threads |-> "none"]
    /\ execRet = [t \in Threads |-> "none"]

\* no thread calls PoolExecutor.Shutdown
GlobalInit == GlobalInitWith({})

\* NewPoolExecutor: if globalPoolExecutor == nil
NewPoolExecutorCheck(t) ==
    /\ panicked = "none"
    /\ threadOp[t] = "GlobalPool" /\ threadPc[t] = "call"
    /\ threadPc' = [threadPc EXCEPT ![t] = IF globalPoolExecutor = 0 THEN "alloc" ELSE "return"]
    /\ UNCHANGED <<exportVars, ioVars, fnVars, nodeVars, globalVars, poolWorkers, queueCap, jobQueue, queueClosed, poolWg,
                   onceState, stopped, mu, workerPc, workerJob, threadOp, startLoop, jobHasResult,
                   jobOutcome, slot, slotClosed, dequeues, processed, panicked>>

\* NewPoolExecutor: globalPoolExecutor = &PoolExecutor{}; the object made by thread t is object t
NewPoolExecutorAlloc(t) ==
    /\ panicked = "none"
    /\ threadOp[t] = "GlobalPool" /\ threadPc[t] = "alloc"
    /\ globalPoolExecutor' = t
    /\ threadPc' = [threadPc EXCEPT ![t] = "getQueue"]
    /\ UNCHANGED <<exportVars, ioVars, fnVars, nodeVars, execQueue, globalQueueOnce, globalQueue, poolsCreated, threadExec,
                   threadCaller, execRet, poolWorkers, queueCap, jobQueue, queueClosed, poolWg,
                   onceState, stopped, mu, workerPc, workerJob, threadOp, startLoop, jobHasResult,
                   jobOutcome, slot, slotClosed, dequeues, processed, panicked>>

\* GetGlobalQueue: globalQueueOnce.Do; the first caller runs NewQueue, hence
\* NewPool(workers, 1000, processor), and calls globalQueue.Start(); a caller that
\* finds the Do finished goes on; one that finds it running waits
GetGlobalQueueCall(t) ==
    /\ panicked = "none"
    /\ threadOp[t] = "GlobalPool" /\ threadPc[t] = "getQueue"
    /\ globalQueueOnce # "running"
    /\ IF OnceRuns(globalQueueOnce)
       THEN /\ globalQueueOnce' = "running"
            /\ poolsCreated' = poolsCreated + 1
            /\ poolWorkers' = NewPoolWorkers(cfgWorkers)
            /\ queueCap' = NewPoolQueueSize(GlobalQueueSize)
            /\ jobQueue' = <<>>
            /\ stopped' = FALSE
            /\ workerPc' = [w \in 1..NewPoolWorkers(cfgWorkers) |-> "unborn"]
            /\ workerJob' = [w \in 1..NewPoolWorkers(cfgWorkers) |-> 0]
            /\ globalQueue' = "queue"
            /\ threadOp' = [threadOp EXCEPT ![t] = "Start"]
            /\ threadPc' = [threadPc EXCEPT ![t] = "call"]
            /\ threadCaller' = [threadCaller EXCEPT ![t] = "GetGlobalQueue"]
       ELSE /\ threadPc' = [threadPc EXCEPT ![t] = "assign"]
            /\ UNCHANGED <<globalQueueOnce, poolsCreated, poolWorkers, queueCap, jobQueue, stopped,
                           workerPc, workerJob, globalQueue, threadOp, threadCaller>>
    /\ UNCHANGED <<exportVars, ioVars, fnVars, nodeVars, globalPoolExecutor, execQueue, threadExec, execRet, queueClosed,
                   poolWg, onceState, mu, startLoop, jobHasResult, jobOutcome, slot, slotClosed,
                   dequeues, processed, panicked>>

\* GetGlobalQueue: Start has returned, the Do is finished, return globalQueue
GetGlobalQueueReturn(t) ==
    /\ panicked = "none"
    /\ threadOp[t] = "Start" /\ threadPc[t] = "returned"
    /\ threadCaller[t] = "GetGlobalQueue"
    /\ globalQueueOnce' = "done"
    /\ threadOp' = [threadOp EXCEPT ![t] = "GlobalPool"]
    /\ threadPc' = [threadPc EXCEPT ![t] = "assign"]
    /\ threadCaller' = [threadCaller EXCEPT ![t] = "none"]
    /\ UNCHANGED <<exportVars, ioVars, fnVars, nodeVars, globalPoolExecutor, execQueue, globalQueue, poolsCreated, threadExec,
                   execRet, poolWorkers, queueCap, jobQueue, queueClosed, poolWg, onceState,
                   stopped, mu, workerPc, workerJob, startLoop, jobHasResult, jobOutcome, slot,
                   slotClosed, dequeues, processed, panicked>>

\* NewPoolExecutor: globalPoolExecutor.queue = (the queue GetGlobalQueue returned);
\* the object is the one the package variable points to now
NewPoolExecutorAssign(t) ==
    /\ panicked = "none"
    /\ threadOp[t] = "GlobalPool" /\ threadPc[t] = "assign"
    /\ execQueue' = [execQueue EXCEPT ![globalPoolExecutor] = globalQueue]
    /\ threadPc' = [threadPc EXCEPT ![t] = "return"]
    /\ UNCHANGED <<exportVars, ioVars, fnVars, nodeVars, globalPoolExecutor, globalQueueOnce, globalQueue, poolsCreated,
                   threadExec, threadCaller, execRet, poolWorkers, queueCap, jobQueue, queueClosed,
                   poolWg, onceState, stopped, mu, workerPc, workerJob, threadOp, startLoop,
                   jobHasResult, jobOutcome, slot, slotClosed, dequeues, processed, panicked>>

\* NewPoolExecutor: return globalPoolExecutor
NewPoolExecutorReturn(t) ==
    /\ panicked = "none"
    /\ threadOp[t] = "GlobalPool" /\ threadPc[t] = "return"
    /\ threadExec' = [threadExec EXCEPT ![t] = globalPoolExecutor]
    /\ threadPc' = [threadPc EXCEPT ![t] = "execute"]
    /\ UNCHANGED <<exportVars, ioVars, fnVars, nodeVars, globalPoolExecutor, execQueue, globalQueueOnce, globalQueue,
                   poolsCreated, threadCaller, execRet, poolWorkers, queueCap, jobQueue,
                   queueClosed, poolWg, onceState, stopped, mu, workerPc, workerJob, threadOp,
                   startLoop, jobHasResult, jobOutcome, slot, slotClosed, dequeues, processed,
                   panicked>>

\* PoolExecutor.Execute: job.Result is made when it is nil, then e.queue.Submit(job),
\* which dereferences e.queue
ExecuteCall(t) ==
    /\ panicked = "none"
    /\ threadOp[t] = "GlobalPool" /\ threadPc[t] = "execute"
    /\ jobHasResult' = [jobHasResult EXCEPT ![t] = TRUE]
    /\ IF execQueue[threadExec[t]] = "nil"
       THEN /\ panicked' = "nil pointer dereference"
            /\ UNCHANGED <<threadOp, threadPc, threadCaller>>
       ELSE /\ threadOp' = [threadOp EXCEPT ![t] = "Submit"]
            /\ threadPc' = [threadPc EXCEPT ![t] = "call"]
            /\ threadCaller' = [threadCaller EXCEPT ![t] = "Execute"]
            /\ UNCHANGED panicked
    /\ UNCHANGED <<exportVars, ioVars, fnVars, nodeVars, globalPoolExecutor, execQueue, globalQueueOnce, globalQueue,
                   poolsCreated, threadExec, execRet, poolWorkers, queueCap, jobQueue, queueClosed,
                   poolWg, onceState, stopped, mu, workerPc, workerJob, startLoop, jobOutcome,
                   slot, slotClosed, dequeues, processed>>

\* a receive that never waits
CanReceiveAlways(ch, closed) == TRUE

\* a receive goes through when the channel holds a value or is closed
CanReceive(ch, closed) == ch # <<>> \/ closed

\* the value of a receive: the oldest value, or the zero value on a closed, empty channel
Received(ch) == IF ch # <<>> THEN Head(ch) ELSE "nil"

\* PoolExecutor.Execute: Submit has returned; return <-job.Result
ExecuteReceive(t) ==
    /\ panicked = "none"
    /\ threadOp[t] = "Submit" /\ threadPc[t] = "returned"
    /\ threadCaller[t] = "Execute"
    /\ CanReceive(slot[t], slotClosed[t])
    /\ execRet' = [execRet EXCEPT ![t] = Received(slot[t])]
    /\ slot' = [slot EXCEPT ![t] = IF @ # <<>> THEN Tail(@) ELSE @]
    /\ threadOp' = [threadOp EXCEPT ![t] = "GlobalPool"]
    /\ threadPc' = [threadPc EXCEPT ![t] = "done"]
    /\ threadCaller' = [threadCaller EXCEPT ![t] = "none"]
    /\ UNCHANGED <<exportVars, ioVars, fnVars, nodeVars, globalPoolExecutor, execQueue, globalQueueOnce, globalQueue,
                   poolsCreated, threadExec, poolWorkers, queueCap, jobQueue, queueClosed, poolWg,
                   onceState, stopped, mu, workerPc, workerJob, startLoop, jobHasResult,
                   jobOutcome, slotClosed, dequeues, processed, panicked>>

GlobalNext ==
    \/ \E t \in Threads :
          \/ NewPoolExecutorCheck(t)
          \/ NewPoolExecutorAlloc(t)
          \/ GetGlobalQueueCall(t)
          \/ GetGlobalQueueReturn(t)
          \/ NewPoolExecutorAssign(t)
          \/ NewPoolExecutorReturn(t)
          \/ ExecuteCall(t)
          \/ ExecuteReceive(t)
    \/ StartStep
    \/ SubmitStep
    \/ MutexStep
    \/ \E w \in Workers : WorkerReceive(w) \/ WorkerProcess(w) \/ WorkerDeliver(w)

SpecGlobal == GlobalInit /\ [][GlobalNext]_vars

\* ------------------------------------------------------------ shared pool, shut down
\* The callers of the shared pool next to one thread that calls
\* PoolExecutor.Shutdown on the package's executor once it exists.
Closer == MaxCallers + 1

\* PoolExecutor.Shutdown: if e.queue != nil { e.queue.Shutdown() }
ExecutorShutdownCall(t) ==
    /\ panicked = "none"
    /\ threadOp[t] = "ExecutorShutdown" /\ threadPc[t] = "call"
    /\ globalPoolExecutor # 0
    /\ IF execQueue[globalPoolExecutor] = "nil"
       THEN /\ threadPc' = [threadPc EXCEPT ![t] = "done"]
            /\ UNCHANGED <<threadOp, threadCaller>>
       ELSE /\ threadOp' = [threadOp EXCEPT ![t] = "Shutdown"]
            /\ threadPc' = [threadPc EXCEPT ![t] = "call"]
            /\ threadCaller' = [threadCaller EXCEPT ![t] = "ExecutorShutdown"]
    /\ UNCHANGED <<exportVars, ioVars, fnVars, nodeVars, globalPoolExecutor, execQueue, globalQueueOnce, globalQueue,
                   poolsCreated, threadExec, execRet, poolWorkers, queueCap, jobQueue, queueClosed,
                   poolWg, onceState, stopped, mu, workerPc, workerJob, startLoop, jobHasResult,
                   jobOutcome, slot, slotClosed, dequeues, processed, panicked>>

\* PoolExecutor.Shutdown: Pool.Shutdown has returned
ExecutorShutdownReturn(t) ==
    /\ panicked = "none"
    /\ threadOp[t] = "Shutdown" /\ threadPc[t] = "returned"
    /\ threadCaller[t] = "ExecutorShutdown"
    /\ threadOp' = [threadOp EXCEPT ![t] = "ExecutorShutdown"]
    /\ threadPc' = [threadPc EXCEPT ![t] = "done"]
    /\ threadCaller' = [threadCaller EXCEPT ![t] = "none"]
    /\ UNCHANGED <<exportVars, ioVars, fnVars, nodeVars, globalPoolExecutor, execQueue, globalQueueOnce, globalQueue,
                   poolsCreated, threadExec, execRet, poolWorkers, queueCap, jobQueue, queueClosed,
                   poolWg, onceState, stopped, mu, workerPc, workerJob, startLoop, jobHasResult,
                   jobOutcome, slot, slotClosed, dequeues, processed, panicked>>

GlobalShutdownInit ==
    /\ GlobalInitWith({Closer})
    /\ cfgWorkers = 1

GlobalShutdownNext ==
    \/ GlobalNext
    \/ \E t \in Threads : ExecutorShutdownCall(t) \/ ExecutorShutdownReturn(t)
    \/ ShutdownStep
    \/ \E w \in Workers : WorkerExit(w)

SpecGlobalShutdown == GlobalShutdownInit /\ [][GlobalShutdownNext]_vars

\* ------------------------------------------------------------ claims: export
\* the call went through Writer.WriteParallel
InWriteParallel == component = "csv" /\ (pc \in {"spawn", "collect", "checkErr"} \/ closerPc # "none")

\* the call went through the chunked path of Builder.writeSheet
InSheetParallel == component = "xlsx" /\ (pc \in {"spawn", "collect", "checkErr"} \/ closerPc # "none")

\* the number of header records an input yields
HeaderCount == IF Len(headers) > 0 THEN 1 ELSE 0

\* C1: a parallel CSV export writes the header record once and first (only when
\* headers is non-empty), then exactly one record per input row in the input's
\* row order, for every chunkSize, workers and completion order; until the
\* call returns, nothing but the header record has reached the sink.
C1_ParallelCsvInRowOrder ==
    InWriteParallel =>
        IF pc = "done"
        THEN /\ ret = "nil"
             /\ Len(out) = HeaderCount + Len(rows)
             /\ HeaderCount = 1 => out[1] = headers
             /\ \A k \in 1..Len(rows) :
                    out[HeaderCount + k] = [j \in 1..Len(rows[k]) |-> SprintV(rows[k][j])]
        ELSE out = (IF Len(headers) > 0 THEN <<headers>> ELSE <<>>)

\* C1 witness: a parallel CSV call with a header and three chunks has returned
C1_Witness ==
    /\ InWriteParallel /\ pc = "done"
    /\ Len(headers) > 0 /\ Len(rows) >= 3 /\ Len(CsvChunks) >= 3
    /\ Len(out) = 1 + Len(rows)

\* C2: the records produced for a CSV job are the same through the inline
\* executor, the ephemeral-pool executor and the shared pool's processor: every
\* one of them ends with the records WriteSync produces for that input.
C2_CsvSameAcrossExecutors ==
    (pc = "done" /\ cfgFormat = "csv") =>
        /\ component = "csv"
        /\ ret = "nil"
        /\ out = WriteSyncRecords(headers, rows)

\* C2 witness: the shared pool's processor has finished a chunked CSV job
\* whose chunks hold more than one row
C2_Witness ==
    /\ pc = "done" /\ executor = "pool" /\ InWriteParallel
    /\ Len(rows) >= 3 /\ EffChunkSize = 2
    /\ out = WriteSyncRecords(headers, rows)

\* C3: the worksheet written on the chunked path is, element by element and in
\* the same order, the worksheet the sync path writes for the same input.
C3_SheetParallelEqualsSync ==
    (InSheetParallel /\ pc = "done") =>
        /\ ret = "nil"
        /\ out = SheetPrologue(headers) \o SyncRowsXML(rows, FirstDataRow(headers))
                    \o <<SheetFooter>>

\* C3 witness: a chunked worksheet of three rows in at least two chunks is complete
C3_Witness ==
    /\ InSheetParallel /\ pc = "done"
    /\ Len(rows) >= 3 /\ Len(XlsxChunks) >= 2
    /\ out[Len(out)] = SheetFooter

\* the row elements of a finished worksheet
SheetRows == SelectSeq(out, LAMBDA e : e.tag = "row")

\* C4: in a finished worksheet the row numbers are 1, 2, 3, ... without gap or
\* repeat; the header row, when there is one, is row 1; data row k (0-based)
\* is row firstDataRow + k and holds input row k, on both paths.
C4_RowNumbersConsecutive ==
    (component = "xlsx" /\ pc = "done") =>
        /\ Len(SheetRows) = HeaderCount + Len(rows)
        /\ \A i \in 1..Len(SheetRows) : SheetRows[i].r = Itoa(i)
        /\ HeaderCount = 1 =>
               [j \in 1..Len(headers) |-> SheetRows[1].cells[j].t]
                   = [j \in 1..Len(headers) |-> EscapeString(headers[j])]
        /\ \A k \in 0..(Len(rows) - 1) :
               LET e == SheetRows[HeaderCount + k + 1]
               IN  /\ e.r = Itoa(HeaderCount + 1 + k)
                   /\ Len(e.cells) = Len(rows[k + 1])
                   /\ \A j \in 1..Len(e.cells) :
                          /\ e.cells[j].t = EscapeString(SprintV(rows[k + 1][j]))
                          /\ e.cells[j].ref = columnName(j - 1) \o e.r

\* C4 witness: a chunked worksheet with a header row, chunks of two rows and a
\* shorter last chunk is complete
C4_Witness ==
    /\ InSheetParallel /\ pc = "done"
    /\ Len(headers) > 0 /\ Len(rows) = 3 /\ EffChunkSize = 2
    /\ SheetRows[4].r = <<"4">>

\* ------------------------------------------------------------ claims: split+zip
\* the call went through Splitter.executeParallel
InSplitParallel == component = "split" /\ (pc \in {"spawn", "collect", "checkErr"} \/ closerPc # "none")

\* ceil(n / c) for c >= 1
CeilDiv(n, c) == (n \div c) + (IF n % c = 0 THEN 0 ELSE 1)

\* max(1, ceil(N / C)) for the running call
ExpectedParts == IF CeilDiv(Len(rows), SplitChunkSize) < 1 THEN 1 ELSE CeilDiv(Len(rows), SplitChunkSize)

\* the rows [(i-1)*C, min(i*C, N)) of part i (1-based)
ExpectedPartRows(i) ==
    LET hi == IF i * SplitChunkSize < Len(rows) THEN i * SplitChunkSize ELSE Len(rows)
    IN  [k \in 1..(hi - (i - 1) * SplitChunkSize) |-> rows[(i - 1) * SplitChunkSize + k]]

\* the number of data rows an archive entry holds: its records, or the row
\* elements of its worksheet, less the header
EntryDataRows(e) ==
    LET withHeader == IF cfgIncludeHeaders /\ Len(headers) > 0 THEN 1 ELSE 0
    IN  IF cfgFormat = "xlsx"
        THEN Len(SelectSeq(e.data[5].data, LAMBDA x : x.tag = "row")) - withHeader
        ELSE Len(e.data) - withHeader

RECURSIVE SumRows(_, _)
SumRows(entries, i) == IF i > Len(entries) THEN 0 ELSE EntryDataRows(entries[i]) + SumRows(entries, i + 1)

\* the name part_<i>.<ext>
ExpectedName(i) == "part_" \o ToString(i) \o (IF cfgFormat = "xlsx" THEN ".xlsx" ELSE ".csv")

\* C5: a successful split+zip of N rows with part size C yields exactly
\* max(1, ceil(N/C)) parts; part i holds rows [(i-1)*C, min(i*C, N)), the row
\* counts sum to N; the entries are part_1.<ext> .. part_<count>.<ext> in that
\* order; the result reports that count, N and the ordered names. In sync and
\* in parallel mode, and for N = 0.
C5_SplitPartsAndResult ==
    (component = "split" /\ pc = "done" /\ ret = "nil") =>
        /\ Len(archive) = ExpectedParts
        /\ \A i \in 1..Len(archive) :
               /\ archive[i].name = ExpectedName(i)
               /\ archive[i].data = generatePartData(headers, ExpectedPartRows(i)).data
               /\ EntryDataRows(archive[i]) = Len(ExpectedPartRows(i))
        /\ SumRows(archive, 1) = Len(rows)
        /\ splitResult = [set |-> TRUE, TotalParts |-> ExpectedParts, TotalRows |-> Len(rows),
                           PartFiles |-> [i \in 1..ExpectedParts |-> ExpectedName(i)]]

\* C5 witness: a parallel split of three rows into parts of two has succeeded
C5_Witness ==
    /\ InSplitParallel /\ pc = "done" /\ ret = "nil"
    /\ Len(rows) = 3 /\ SplitChunkSize = 2
    /\ Len(archive) = 2
    /\ splitResult.TotalParts = 2

\* C6: in parallel split+zip the archive holds no entry until every part task
\* has finished, and its entries are then in ascending part index, whatever
\* order the parts completed in.
C6_ArchiveAfterAllPartsAscending ==
    (InSplitParallel /\ archive # <<>>) =>
        /\ spawned = SplitNumParts
        /\ \A i \in DOMAIN taskPc : taskPc[i] = "done"
        /\ \A i \in 1..Len(archive) : archive[i].name = ExpectedName(i)
        /\ \A i \in 1..Len(results) : results[i].PartIndex = i - 1

\* C6 witness: three parts were written after all three tasks had finished
C6_Witness ==
    /\ InSplitParallel /\ Len(archive) = 3
    /\ \A i \in DOMAIN taskPc : taskPc[i] = "done"

\* the errors the part tasks of the running call can report
PartErrors == {"part " \o ToString(i) \o ": unsupported format" : i \in 1..SplitNumParts}

\* C7: a parallel split+zip whose part encoding fails always terminates and
\* returns an error (the first one sent on errChan, which is a FIFO) and no
\* result: until it has returned the call can take a step, for every number
\* of parts and of workers.
C7_FailingParallelSplitReturns ==
    (InSplitParallel /\ cfgFormat \notin {"csv", "xlsx"}) =>
        IF pc = "done"
        THEN ret \in PartErrors /\ splitResult = NilResult
        ELSE ENABLED SplitNext

\* a part task has reported an error
ErrorReported == errChan # <<>> \/ (pc = "done" /\ ret \notin {"none", "nil"})

\* a part task that was dispatched and has not finished
Dispatched(i) == i \in DOMAIN taskPc /\ taskPc[i] # "done"

\* C8: once a part task has reported an error, no part entry is written and no
\* result is returned; the call returns an error, and the part tasks already
\* dispatched run to completion: when the call has returned it returned a part's
\* error and every part task has finished, and while a dispatched part task has
\* not finished the call can take a step.
C8_ErrorSkipsReassembly ==
    (InSplitParallel /\ ErrorReported) =>
        /\ archive = <<>>
        /\ splitResult = NilResult
        /\ pc = "done" =>
               /\ ret \in PartErrors
               /\ \A i \in DOMAIN taskPc : taskPc[i] = "done"
               /\ spawned = SplitNumParts
        /\ (\E i \in 0..(SplitNumParts - 1) : Dispatched(i)) => ENABLED SplitNext

\* ------------------------------------------------------------ claims: worker pool
Jobs == {t \in Threads : threadOp[t] = "Submit"}

InQueue(j) == \E k \in DOMAIN jobQueue : jobQueue[k] = j

QueueCopies(j) == Cardinality({k \in DOMAIN jobQueue : jobQueue[k] = j})

\* the jobs Submit has put on the queue so far
AcceptedJobs == {j \in Jobs : InQueue(j) \/ dequeues[j] > 0}

Holders(j) == {w \in DOMAIN workerPc : workerJob[w] = j /\ workerPc[w] \in {"process", "deliver"}}

\* the worker is done with job j: processed once, and its slot, if it has one, holds
\* the processor's result and is closed
Finished(j) ==
    /\ processed[j] = 1
    /\ Holders(j) = {}
    /\ jobHasResult[j] => slot[j] = <<jobOutcome[j]>> /\ slotClosed[j]
    /\ ~jobHasResult[j] => slot[j] = <<>>

AllWorkersExited == onceState = "done" /\ \A w \in DOMAIN workerPc : workerPc[w] = "exited"

\* C9: an accepted job is at every moment either once in the queue, or held by exactly
\* one worker that dequeued it, or finished; it is dequeued at most once, processed at
\* most once, its slot receives at most one value and that value is the processor's
\* result; when all workers of a started pool have exited, every accepted job is finished.
C9_AcceptedJobProcessedOnce ==
    /\ panicked = "none"
    /\ \A j \in Jobs :
          /\ dequeues[j] <= 1 /\ processed[j] <= 1 /\ Len(slot[j]) <= 1
          /\ processed[j] <= dequeues[j]
          /\ slot[j] # <<>> => processed[j] = 1 /\ slot[j][1] = jobOutcome[j]
          /\ Cardinality(Holders(j)) <= 1
    /\ \A j \in AcceptedJobs :
          \/ QueueCopies(j) = 1 /\ dequeues[j] = 0 /\ Holders(j) = {}
          \/ ~InQueue(j) /\ dequeues[j] = 1 /\ Cardinality(Holders(j)) = 1
               /\ (\A w \in Holders(j) : processed[j] = (IF workerPc[w] = "deliver" THEN 1 ELSE 0))
               /\ slot[j] = <<>>
          \/ ~InQueue(j) /\ dequeues[j] = 1 /\ Finished(j)
    /\ AllWorkersExited => jobQueue = <<>> /\ \A j \in AcceptedJobs : Finished(j)

\* two workers have exited after every client call returned, and two accepted jobs are
\* finished, one with a completion slot and one whose processor failed
C9_Witness ==
    /\ AllWorkersExited
    /\ Cardinality(DOMAIN workerPc) = 2
    /\ \E j, k \in AcceptedJobs :
          /\ j # k
          /\ Finished(j) /\ Finished(k)
          /\ jobHasResult[j] /\ slot[j] = <<"nil">>
          /\ jobOutcome[k] = "unsupported format: pdf"

\* C10: once Shutdown has set p.stopped, no Submit is at its send, no job enters the
\* queue, no job that was not accepted before is dequeued or processed, and nothing
\* panics.
C10_SubmitAfterShutdownIsNoOp ==
    [][ /\ panicked' = "none"
        /\ \A t \in Jobs : stopped' => threadPc'[t] # "send"
        /\ stopped => AcceptedJobs' = AcceptedJobs
        /\ stopped => \A j \in Jobs \ AcceptedJobs : dequeues'[j] = 0 /\ processed'[j] = 0 ]_vars

\* a Submit returned after Shutdown had closed the queue, and its job was neither
\* enqueued nor processed, while an earlier job was accepted
C10_Witness ==
    /\ stopped /\ queueClosed
    /\ panicked = "none"
    /\ \E t \in Jobs :
          /\ threadPc[t] = "returned"
          /\ t \notin AcceptedJobs
          /\ processed[t] = 0 /\ slot[t] = <<>>
    /\ AcceptedJobs # {}

Shutdowns == {t \in Threads : threadOp[t] = "Shutdown"}

Starts == {t \in Threads : threadOp[t] = "Start"}

\* what a call on the pool can change besides the caller's own position and the mutex
poolState ==
    <<jobQueue, queueClosed, stopped, poolWg, onceState, workerPc, workerJob, slot, slotClosed,
      dequeues, processed>>

\* C11: Shutdown is idempotent: the queue, once closed, stays closed and no call
\* attempts a second close; no call panics; a Shutdown that finds the pool stopped
\* goes straight to its return and changes nothing of the pool.
C11_ShutdownIdempotent ==
    [][ /\ panicked' = "none"
        /\ queueClosed => queueClosed'
        /\ \A t \in Shutdowns : threadPc'[t] = "close" => ~queueClosed'
        /\ \A t \in Shutdowns :
              (stopped /\ threadPc[t] = "check" /\ threadPc'[t] # "check") =>
                  threadPc'[t] = "unlock" /\ UNCHANGED poolState ]_vars

\* two Shutdown calls have returned and the queue is closed
C11_Witness ==
    /\ queueClosed /\ stopped /\ panicked = "none"
    /\ \E t, u \in Shutdowns : t # u /\ threadPc[t] = "returned" /\ threadPc[u] = "returned"

\* C12: when Shutdown's wait returns on a pool whose Start has completed, every
\* worker has exited, the queue is empty, and every job that was enqueued is
\* processed with its completion slot fulfilled.
C12_ShutdownGraceful ==
    [][ \A t \in Shutdowns :
          (threadPc[t] = "wait" /\ threadPc'[t] = "unlock" /\ onceState = "done") =>
              /\ AllWorkersExited
              /\ jobQueue = <<>>
              /\ \A j \in AcceptedJobs : Finished(j) ]_vars

\* Shutdown is past its wait on a started pool that had accepted two jobs
C12_Witness ==
    /\ onceState = "done"
    /\ \E t \in Shutdowns : threadPc[t] = "unlock" /\ mu = t /\ queueClosed
    /\ Cardinality(AcceptedJobs) >= 2
    /\ \A j \in AcceptedJobs : Finished(j)

\* the worker threads launched so far: those counted by the wait group and those that exited
Launched == poolWg + Cardinality({w \in DOMAIN workerPc : workerPc[w] = "exited"})

\* C13: Start is idempotent: the workers launched are the pool's own, never more
\* than `workers`; at most one call runs the loop; once a Start has returned
\* exactly `workers` workers have been launched.
C13_StartIdempotent ==
    /\ Launched = Cardinality({w \in DOMAIN workerPc : workerPc[w] # "unborn"})
    /\ Launched <= poolWorkers
    /\ Cardinality({t \in Starts : threadPc[t] = "loop"}) <= 1
    /\ (onceState = "done" \/ \E t \in Starts : threadPc[t] = "returned") => Launched = poolWorkers

\* two Start calls have returned on a pool of two workers
C13_Witness ==
    /\ poolWorkers = 2 /\ Launched = 2
    /\ \E t, u \in Starts : t # u /\ threadPc[t] = "returned" /\ threadPc[u] = "returned"

\* C14: the queue never holds more than queueCapacity jobs; a Submit at its send
\* leaves it only by appending its job to a queue that had room, and while the
\* queue is full it stays at its send with its job not dropped.
C14_QueueBounded ==
    [][ /\ Len(jobQueue') <= queueCap'
        /\ \A t \in Jobs :
              threadPc[t] = "send" =>
                  \/ threadPc'[t] = "send" /\ ~InQueue(t)' /\ dequeues'[t] = 0
                  \/ /\ Len(jobQueue) < queueCap
                     /\ jobQueue' = Append(jobQueue, t)
                     /\ threadPc'[t] = "unlock" ]_vars

\* a Submit is blocked at its send on a full queue
C14_Witness ==
    /\ Len(jobQueue) = queueCap
    /\ \E t \in Jobs : threadPc[t] = "send" /\ ~InQueue(t)
    /\ panicked = "none"

\* ------------------------------------------------------------ claims: shared pool
\* C15: however the global_pool calls interleave, one pool is created and started,
\* and every call reaches Execute with an executor bound to that pool, so its
\* job is submitted to it: no call dereferences an unset queue.
C15_OneSharedPool ==
    /\ poolsCreated <= 1
    /\ Launched <= poolWorkers
    /\ \A t \in Callers : threadPc[t] = "execute" => execQueue[threadExec[t]] = "queue"
    /\ panicked = "none"

\* C16: a worker that has a failed job in hand delivers that error to the job's
\* slot, closes it and goes back to the queue; no worker ever exits, so the live
\* workers stay the ones Start launched; every job that is returned to its
\* caller, also after a failure, was processed once and returns its own result.
C16_WorkersSurviveFailedJob ==
    [][ /\ \A w \in DOMAIN workerPc :
              (workerPc[w] = "deliver" /\ workerPc'[w] # "deliver"
                 /\ jobOutcome[workerJob[w]] # "nil") =>
                  /\ slot'[workerJob[w]] = <<jobOutcome[workerJob[w]]>>
                  /\ slotClosed'[workerJob[w]]
                  /\ workerPc'[w] = "recv"
                  /\ poolWg' = poolWg
        /\ \A w \in DOMAIN workerPc' : workerPc'[w] # "exited"
        /\ onceState = "done" => poolWg' = poolWorkers
        /\ \A j \in Callers : execRet'[j] # "none" => processed'[j] = 1 /\ execRet'[j] = jobOutcome[j]
      ]_vars

\* the single worker delivered job 2's error to its caller and then processed job 1
C16_Witness ==
    /\ poolWorkers = 1 /\ poolWg = 1
    /\ execRet[2] = "unsupported format: pdf"
    /\ workerPc[1] = "deliver" /\ workerJob[1] = 1 /\ processed[1] = 1
    /\ panicked = "none"

\* C17: Execute has returned to caller t only if job t was dequeued and processed,
\* once, and delivered; the value returned is the processor's result for job t;
\* a caller whose job is not delivered yet is still inside Execute.
C17_ExecuteReturnsOwnResult ==
    \A t \in Callers :
        /\ execRet[t] # "none" =>
               /\ dequeues[t] = 1 /\ processed[t] = 1 /\ slotClosed[t]
               /\ execRet[t] = jobOutcome[t]
               /\ threadPc[t] = "done"
        /\ threadPc[t] = "done" => execRet[t] # "none"
        /\ slot[t] # <<>> => slot[t] = <<jobOutcome[t]>> /\ processed[t] = 1

\* two callers executed concurrently and each got its own job's result
C17_Witness ==
    /\ execRet[1] = "nil"
    /\ execRet[2] = "unsupported format: pdf"
    /\ poolWorkers = 2
    /\ threadPc[1] = "done" /\ threadPc[2] = "done"

\* ------------------------------------------------------------ claims: chunked runs
\* the chunk or part tasks that hold a token of the semaphore
InFlight == {i \in DOMAIN taskPc : taskPc[i] \in {"run", "release"}}

\* `workers` as the running component reads it
RunWorkers == IF component = "split" THEN SplitWorkers ELSE EffWorkers

\* C18: in a chunked parallel run of any of the three components the tasks past
\* the semaphore and not yet released are exactly the tokens held, and at most
\* `workers`, with no worker pool in existence.
C18_InFlightAtMostWorkers ==
    component \in {"csv", "xlsx", "split"} =>
        /\ Cardinality(InFlight) = semaphore
        /\ Cardinality(InFlight) <= RunWorkers
        /\ poolWorkers = 0 /\ workerPc = <<>>

\* `workers` tasks hold the semaphore and a further task is waiting for it
C18_Witness ==
    /\ component \in {"csv", "xlsx", "split"}
    /\ cfgWorkers = 1
    /\ Cardinality(InFlight) = 1
    /\ Cardinality({i \in DOMAIN taskPc : taskPc[i] = "start"}) = 2

\* ------------------------------------------------------------ claims: the job and the configuration
\* C19: no step of an Execute of the inline, the ephemeral-pool or the shared-pool
\* executor changes the job's configuration (mode, format, chunk size, workers),
\* its headers or its rows.
C19_JobReadOnly ==
    [][UNCHANGED <<cfgMode, cfgFormat, cfgChunkSize, cfgWorkers, headers, rows>>]_vars

\* C20: Splitter.Execute with split or zip not both enabled does nothing but
\* return the configuration error: no output file is created or truncated, no
\* part is encoded or dispatched, and no result is returned.
C20_BadSplitConfigHasNoEffect ==
    (executor = "splitter" /\ ~(cfgSplit /\ cfgZip)) =>
        /\ fileCreated = FALSE
        /\ archive = <<>> /\ out = <<>>
        /\ component = "none" /\ spawned = 0 /\ taskPc = << >>
        /\ splitResult = NilResult
        /\ pc \in {"entry", "done"}
        /\ pc = "done" => ret = "split and zip must both be enabled"

\* Execute has returned the configuration error for a job with rows and zip disabled
C20_Witness ==
    /\ executor = "splitter" /\ cfgSplit /\ ~cfgZip
    /\ pc = "done" /\ ret = "split and zip must both be enabled"
    /\ Len(rows) = MaxRows
    /\ fileCreated = FALSE

\* C21: a job whose format is neither csv nor xlsx, given to the inline, the
\* ephemeral-pool or the shared-pool executor, ends with the error "unsupported
\* format"; the output file is never created or truncated, nothing is written
\* and no chunk task is dispatched.
C21_UnsupportedFormatRejected ==
    (executor \in {"sync", "parallel", "pool"} /\ cfgFormat \notin {"csv", "xlsx"}) =>
        /\ fileCreated = FALSE
        /\ out = <<>> /\ archive = <<>>
        /\ component = "none" /\ spawned = 0 /\ taskPc = << >> /\ wg = 0
        /\ pc \in {"entry", "done"}
        /\ pc = "done" => ret = "unsupported format"

\* the shared-pool processor has rejected a pdf job that has rows
C21_Witness ==
    /\ executor = "pool" /\ cfgFormat = "pdf"
    /\ pc = "done" /\ ret = "unsupported format"
    /\ Len(rows) = MaxRows
    /\ fileCreated = FALSE

\* ------------------------------------------------------------ CSV file I/O
\* The CSV writers hand their records to a csv.Writer on top of a bufio.Writer
\* on top of the file (csv.NewWriter reuses a bufio.Writer it is given). The
\* buffer holds 64KB (WriteSync) or 128KB (WriteParallel); here its capacity is
\* counted in records.
BufRecords == 2

\* the records the followed call writes, in the order it writes them
IoRecords ==
    IF ioPath = "WriteSync"
    THEN WriteSyncRecords(headers, rows)
    ELSE HeaderRecords(headers)
            \o ConcatAll([i \in 1..Len(CsvChunks) |-> processChunk(i - 1, CsvChunks[i]).chunk.Records])

\* file.Write number k fails: once the file fails it keeps failing
FileWriteFails(k) == ioFailAt # 0 /\ k >= ioFailAt

\* what the function returns after its deferred Flush calls: the value of its
\* return statement, whatever the deferred calls met
ReturnAfterFlush(r, flushErr) == r

IoInit ==
    /\ headers \in SampleHeaders
    /\ \E n \in 0..MaxRows : rows = SampleRows(n)
    /\ cfgMode = "sync" /\ cfgFormat = "csv"
    /\ cfgChunkSize \in 0..MaxChunkSize
    /\ cfgWorkers = 0
    /\ executor = "none" /\ pc = "none"
    /\ cfgSplit = FALSE /\ cfgZip = FALSE /\ cfgIncludeHeaders = TRUE
    /\ splitResult = NilResult
    /\ Idle
    /\ NoPool
    /\ NoFn /\ NoNode
    /\ ioPath \in {"WriteSync", "WriteParallel"}
    /\ ioPc = "write"
    /\ ioNext = 1
    /\ ioBuf = 0
    /\ ioErr = "nil"
    /\ ioFailAt \in 0..(MaxRows + 1)
    /\ ioWrites = 0
    /\ ioRet = "none"

\* csvWriter.Write(record): the record goes into the buffer; a full buffer is
\* written to the file first, and a failed file write is returned at once
IoWriteRecord ==
    /\ ioPc = "write"
    /\ ioNext <= Len(IoRecords)
    /\ LET full == ioBuf = BufRecords
           failed == full /\ FileWriteFails(ioWrites + 1)
           msg == CASE ioNext = 1 /\ Len(headers) > 0 -> "failed to write headers"
                    [] ioPath = "WriteSync" -> "failed to write row"
                    [] OTHER -> "failed to write record"
       IN  /\ ioWrites' = IF full THEN ioWrites + 1 ELSE ioWrites
           /\ IF failed
              THEN /\ ioErr' = "write failed"
                   /\ ioRet' = ReturnAfterFlush(msg, "write failed")
                   /\ ioPc' = "returned"
                   /\ UNCHANGED <<ioBuf, ioNext>>
              ELSE /\ ioBuf' = (IF full THEN 0 ELSE ioBuf) + 1
                   /\ ioNext' = ioNext + 1
                   /\ UNCHANGED <<ioErr, ioRet, ioPc>>
    /\ UNCHANGED <<exportVars, poolVars, globalVars, fnVars, nodeVars, ioPath, ioFailAt>>

\* return nil, then the deferred csvWriter.Flush(), buffered.Flush() and
\* file.Close(): the first Flush writes what the buffer holds to the file
IoReturn ==
    /\ ioPc = "write"
    /\ ioNext > Len(IoRecords)
    /\ LET pending == ioBuf > 0
           failed == pending /\ FileWriteFails(ioWrites + 1)
       IN  /\ ioWrites' = IF pending THEN ioWrites + 1 ELSE ioWrites
           /\ ioErr' = IF failed THEN "write failed" ELSE ioErr
           /\ ioBuf' = IF pending /\ ~failed THEN 0 ELSE ioBuf
           /\ ioRet' = ReturnAfterFlush("nil", IF failed THEN "write failed" ELSE "nil")
    /\ ioPc' = "returned"
    /\ UNCHANGED <<exportVars, poolVars, globalVars, fnVars, nodeVars, ioPath, ioNext, ioFailAt>>

IoNext == IoWriteRecord \/ IoReturn

SpecCsvIO == IoInit /\ [][IoNext]_vars

\* C22: when a write to the output file fails during WriteSync or
\* WriteParallel, the flush at the end of the call included, the call returns
\* an error.
C22_WriteFailureReturned ==
    (ioPc = "returned" /\ ioErr # "nil") => ioRet # "nil"

\* C23: a non-positive workers setting behaves as 4 wherever it is consumed;
\* here, where it sizes the shared worker pool: the pool created for a job
\* with workers <= 0 has 4 workers.
C23_PoolSizedWithDefault ==
    poolsCreated > 0 =>
        /\ poolWorkers = (IF cfgWorkers <= 0 THEN DefaultWorkers ELSE cfgWorkers)
        /\ Len(workerPc) = poolWorkers

\* ------------------------------------------------------------ helper functions
\* The helpers of the writers, each called on its own with arguments drawn
\* from bounded sets.
MaxCol == 702

\* texts for the escaping helper: every character it treats specially, alone
\* and next to ordinary characters
EscapeChars == {"&", "<", ">", "'", "\"", "a", " "}
EscapeTexts ==
    {<<>>} \cup {<<c>> : c \in EscapeChars} \cup {<<c, d>> : c, d \in EscapeChars}

\* the helper under evaluation returns value
Returns(value) ==
    /\ fnPc = "call"
    /\ fnOut' = value
    /\ fnPc' = "returned"
    /\ UNCHANGED <<exportVars, poolVars, globalVars, ioVars, nodeVars, fnName, fnInt, fnText>>

\* columnName(col) of the builder
CallColumnName ==
    /\ fnName = "columnName"
    /\ Returns(columnName(fnInt))

\* columnName(col) of the part writer
CallPartColumnName ==
    /\ fnName = "partColumnName"
    /\ Returns(partColumnName(fnInt))

\* the text of the one cell of buildRowXML(1, [text])
CallBuildRowXML ==
    /\ fnName = "buildRowXML"
    /\ Returns(buildRowXML(1, <<fnText>>).cells[1].t)

\* the same in the part writer
CallPartBuildRowXML ==
    /\ fnName = "partBuildRowXML"
    /\ Returns(partBuildRowXML(1, <<fnText>>).cells[1].t)

\* splitIntoChunks(rows, chunkSize) of the CSV writer
CallSplitIntoChunks ==
    /\ fnName = "splitIntoChunks"
    /\ Returns(splitIntoChunks(rows, fnInt))

\* splitIntoChunks(rows, chunkSize) of the builder
CallXlsxSplitIntoChunks ==
    /\ fnName = "xlsxSplitIntoChunks"
    /\ Returns(xlsxSplitIntoChunks(rows, fnInt))

\* encoding/csv Writer.fieldNeedsQuotes: an empty field needs none; the field
\* \. does; so does a field with the delimiter, a quote, CR or LF, or one that
\* starts with a space
fieldNeedsQuotes(field) ==
    IF field = <<>> THEN FALSE
    ELSE \/ field = <<"\\", ".">>
         \/ \E i \in 1..Len(field) : field[i] \in {",", "\"", "\r", "\n"}
         \/ field[1] \in {" ", "\t"}

\* a quoted field whose embedded quotes are written once
csvQuotedNoDoubling(field) == <<"\"">> \o field \o <<"\"">>

\* encoding/csv Writer.Write on a field that needs quotes: the field between
\* quotes, each embedded quote written twice (UseCRLF is off)
csvQuoted(field) ==
    <<"\"">>
        \o ConcatAll([i \in 1..Len(field) |->
                        IF field[i] = "\"" THEN <<"\"", "\"">> ELSE <<field[i]>>])
        \o <<"\"">>

csvField(field) == IF fieldNeedsQuotes(field) THEN csvQuoted(field) ELSE field

\* csvWriter.Write(record): the fields separated by commas, then a line feed
csvWriterWrite(record) ==
    ConcatAll([n \in 1..Len(record) |->
                 (IF n > 1 THEN <<",">> ELSE <<>>) \o csvField(record[n])])
        \o <<"\n">>

\* the text a sequence of csvWriter.Write calls produces
csvText(records) == ConcatAll([i \in 1..Len(records) |-> csvWriterWrite(records[i])])

\* field texts for the CSV writers
CsvTexts ==
    { <<>>, <<"a">>, <<"a", ",", "b">>, <<"\"">>, <<"a", "\"", "b">>, <<"\n">>, <<"a", "\n">> }

\* tables for the CSV writers: no row, or one row of one or two text cells
CsvTables ==
    {<<>>} \cup {<< <<TextCell(t)>> >> : t \in CsvTexts}
           \cup {<< <<TextCell(t), TextCell(u)>> >> : t, u \in CsvTexts}

\* the file Writer.WriteSync writes
CallWriteSync ==
    /\ fnName = "WriteSync"
    /\ Returns(csvText(WriteSyncRecords(headers, rows)))

\* the file Writer.WriteParallel writes with chunks of fnInt rows
CallWriteParallel ==
    /\ fnName = "WriteParallel"
    /\ Returns(csvText(HeaderRecords(headers)
                        \o ConcatAll([i \in 1..Len(splitIntoChunks(rows, fnInt)) |->
                               processChunk(i - 1, splitIntoChunks(rows, fnInt)[i]).chunk.Records])))

\* the archive entry writeCSVPartToZip writes
CallWriteCSVPartToZip ==
    /\ fnName = "writeCSVPartToZip"
    /\ Returns(csvText(writeCSVPartToZip(headers, rows, TRUE)))

\* the bytes generateCSVPartData returns
CallGenerateCSVPartData ==
    /\ fnName = "generateCSVPartData"
    /\ Returns(csvText(generateCSVPartData(headers, rows, TRUE)))

HelperInit ==
    /\ cfgMode = "sync" /\ cfgFormat = "csv" /\ cfgChunkSize = 0 /\ cfgWorkers = 0
    /\ executor = "none" /\ pc = "none"
    /\ cfgSplit = FALSE /\ cfgZip = FALSE /\ cfgIncludeHeaders = TRUE
    /\ splitResult = NilResult
    /\ Idle
    /\ NoPool
    /\ NoIo /\ NoNode
    /\ fnPc = "call"
    /\ fnOut = <<>>
    /\ \/ /\ fnName \in {"columnName", "partColumnName"}
          /\ fnInt \in 0..MaxCol
          /\ fnText = <<>> /\ headers = <<>> /\ rows = <<>>
       \/ /\ fnName \in {"buildRowXML", "partBuildRowXML"}
          /\ fnText \in EscapeTexts
          /\ fnInt = 0 /\ headers = <<>> /\ rows = <<>>
       \/ /\ fnName \in {"splitIntoChunks", "xlsxSplitIntoChunks"}
          /\ \E n \in 0..(MaxRows + 1) : rows = SampleRows(n)
          /\ fnInt \in 1..(MaxChunkSize + 1)
          /\ fnText = <<>> /\ headers = <<>>
       \/ /\ fnName \in {"WriteSync", "WriteParallel", "writeCSVPartToZip", "generateCSVPartData"}
          /\ headers \in {<<>>} \cup {<<t>> : t \in CsvTexts}
          /\ rows \in CsvTables
          /\ fnInt = 1
          /\ fnText = <<>>

HelperNext ==
    \/ CallColumnName
    \/ CallPartColumnName
    \/ CallBuildRowXML
    \/ CallPartBuildRowXML
    \/ CallSplitIntoChunks
    \/ CallXlsxSplitIntoChunks
    \/ CallWriteSync
    \/ CallWriteParallel
    \/ CallWriteCSVPartToZip
    \/ CallGenerateCSVPartData

SpecHelpers == HelperInit /\ [][HelperNext]_vars

\* ------------------------------------------------------------ the part count on its own
\* Splitter.Execute's part count for a table of fnInt rows and config.ChunkSize,
\* both drawn from the ints within EdgeWidth of zero and of MaxInt
EdgeWidth == 4

EdgeInts == 0..EdgeWidth \cup (MaxInt - EdgeWidth)..MaxInt

\* totalRows := len(rows); chunkSize as the splitter reads it; numParts
CallNumParts ==
    /\ fnName = "numParts"
    /\ Returns(<<NumParts(fnInt, SplitChunkSize)>>)

NumPartsInit ==
    /\ cfgMode = "sync" /\ cfgFormat = "csv" /\ cfgWorkers = 0
    /\ executor = "none" /\ pc = "none"
    /\ cfgSplit = TRUE /\ cfgZip = TRUE /\ cfgIncludeHeaders = TRUE
    /\ splitResult = NilResult
    /\ Idle
    /\ NoPool
    /\ NoIo /\ NoNode
    /\ fnPc = "call"
    /\ fnOut = <<>>
    /\ fnName = "numParts"
    /\ fnInt \in EdgeInts
    /\ cfgChunkSize \in EdgeInts \ {0}
    /\ fnText = <<>> /\ headers = <<>> /\ rows = <<>>

NumPartsNext == CallNumParts

SpecNumParts == NumPartsInit /\ [][NumPartsNext]_vars

RECURSIVE Bijective26(_)
\* the bijective base-26 numeral of n >= 1 with the digits A = 1 .. Z = 26
\* (the empty numeral for 0)
Bijective26(n) ==
    IF n = 0 THEN <<>>
    ELSE LET digit == IF n % 26 = 0 THEN 26 ELSE n % 26
         IN  Bijective26((n - digit) \div 26) \o <<Letters[digit]>>

\* the position of a letter in the alphabet, 1-based
LetterValue(c) == CHOOSE k \in 1..26 : Letters[k] = c

RECURSIVE NumeralValue(_)
\* the number a bijective base-26 numeral stands for
NumeralValue(name) ==
    IF name = <<>> THEN 0
    ELSE 26 * NumeralValue(SubSeq(name, 1, Len(name) - 1)) + LetterValue(name[Len(name)])

\* C24: columnName(i) is the bijective base-26 numeral of i + 1 (0 -> A,
\* 25 -> Z, 26 -> AA, 701 -> ZZ, 702 -> AAA); the index can be read back from
\* the name, so no two indices share a name; the builder's copy and the part
\* writer's copy return the same name.
C24_ColumnNameBijectiveBase26 ==
    (fnName \in {"columnName", "partColumnName"} /\ fnPc = "returned") =>
        /\ fnOut = Bijective26(fnInt + 1)
        /\ \A k \in 1..Len(fnOut) : \E l \in 1..26 : fnOut[k] = Letters[l]
        /\ NumeralValue(fnOut) = fnInt + 1
        /\ fnOut = columnName(fnInt) /\ fnOut = partColumnName(fnInt)
        /\ fnInt = 0 => fnOut = <<"A">>
        /\ fnInt = 25 => fnOut = <<"Z">>
        /\ fnInt = 26 => fnOut = <<"A", "A">>
        /\ fnInt = 701 => fnOut = <<"Z", "Z">>
        /\ fnInt = 702 => fnOut = <<"A", "A", "A">>

\* columnName has returned the three-letter name of column 702
C24_Witness ==
    /\ fnName = "partColumnName" /\ fnPc = "returned"
    /\ fnInt = 702 /\ Len(fnOut) = 3

\* the escaping that replaces the three characters &, < and > and nothing else
EscapeMarkupOnly(text) ==
    ConcatAll([i \in 1..Len(text) |->
                 CASE text[i] = "&" -> <<"&", "a", "m", "p", ";">>
                   [] text[i] = "<" -> <<"&", "l", "t", ";">>
                   [] text[i] = ">" -> <<"&", "g", "t", ";">>
                   [] OTHER -> <<text[i]>>])

\* C26: in a cell's text only &, < and > are replaced (by &amp;, &lt; and
\* &gt;); every other character is written unchanged, in the builder and in
\* the part writer.
C26_OnlyMarkupCharactersEscaped ==
    (fnName \in {"buildRowXML", "partBuildRowXML"} /\ fnPc = "returned") =>
        fnOut = EscapeMarkupOnly(fnText)

\* C30: the chunker cuts N rows into the chunks [i*C, min((i+1)*C, N)) for
\* i = 0 .. ceil(N/C)-1, contiguous, in order and covering every row once,
\* and returns one empty chunk for N = 0.
C30_ChunksPartitionRows ==
    (fnName \in {"splitIntoChunks", "xlsxSplitIntoChunks"} /\ fnPc = "returned") =>
        LET N == Len(rows)
            C == fnInt
            count == IF N = 0 THEN 1 ELSE CeilDiv(N, C)
        IN  /\ Len(fnOut) = count
            /\ \A i \in 0..(count - 1) :
                   fnOut[i + 1] = SubSeq(rows, i * C + 1, IF (i + 1) * C < N THEN (i + 1) * C ELSE N)
            /\ ConcatAll(fnOut) = rows

\* a field as CSV writes it: between quotes with every quote doubled when it
\* holds a comma, a quote or a line feed, as it is otherwise
QuotedWhenSpecial(field) ==
    IF \E i \in 1..Len(field) : field[i] \in {",", "\"", "\n"}
    THEN <<"\"">>
            \o ConcatAll([i \in 1..Len(field) |->
                            IF field[i] = "\"" THEN <<"\"", "\"">> ELSE <<field[i]>>])
            \o <<"\"">>
    ELSE field

RECURSIVE CommaSeparated(_)
\* the fields of a record, each as CSV writes it, with commas in between
CommaSeparated(record) ==
    CASE Len(record) = 0 -> <<>>
      [] Len(record) = 1 -> QuotedWhenSpecial(record[1])
      [] OTHER -> QuotedWhenSpecial(Head(record)) \o <<",">> \o CommaSeparated(Tail(record))

\* the header line when there are headers, and one line per row
ExpectedCsvLines ==
    (IF Len(headers) > 0 THEN <<CommaSeparated(headers) \o <<"\n">> >> ELSE <<>>)
        \o [i \in 1..Len(rows) |-> CommaSeparated(RowRecord(rows[i])) \o <<"\n">>]

\* C27: a field with a comma, a double quote or a line feed is written between
\* double quotes with each embedded quote doubled, and an empty field is
\* written as nothing, by the sync writer, the parallel writer and both
\* split+zip part writers.
C27_CsvFieldsQuoted ==
    (fnName \in {"WriteSync", "WriteParallel", "writeCSVPartToZip", "generateCSVPartData"}
        /\ fnPc = "returned") =>
            fnOut = ConcatAll(ExpectedCsvLines)

\* the parallel writer has written a row of a field with an embedded quote and
\* an empty field
C27_Witness ==
    /\ fnName = "WriteParallel" /\ fnPc = "returned"
    /\ rows = << <<TextCell(<<"a", "\"", "b">>), TextCell(<<>>)>> >>
    /\ headers = << <<"a", ",", "b">> >>
    /\ fnOut = <<"\"", "a", ",", "b", "\"", "\n", "\"", "a", "\"", "\"", "b", "\"", ",", "\n">>

\* ------------------------------------------------------------ spreadsheet builds
\* The spreadsheet builds in sync and in parallel mode: Builder.Build behind
\* the inline and the ephemeral-pool executor, and the part writer behind the
\* splitter.
XlsxBuildInit ==
    /\ cfgFormat = "xlsx"
    /\ cfgMode \in {"sync", "parallel"}
    /\ \/ ExportInit /\ executor \in {"sync", "parallel"}
       \/ SplitInit /\ cfgSplit /\ cfgZip

XlsxBuildNext ==
    \/ SyncExecutorExecute
    \/ ParallelExecutorExecute
    \/ XlsxNext
    \/ SplitNext

SpecXlsxBuild == XlsxBuildInit /\ [][XlsxBuildNext]_vars

\* the names of the five parts of a workbook, in the order of the archive
FivePartNames ==
    << "[Content_Types].xml", "_rels/.rels", "xl/_rels/workbook.xml.rels",
       "xl/workbook.xml", "xl/worksheets/sheet1.xml" >>

\* the contents of the four fixed parts, in the same order
FourFixedContents == <<"content-types", "root-rels", "workbook-rels", "workbook">>

\* C25: a successful spreadsheet build (sync, parallel, and each xlsx part of
\* a split+zip) creates five archive entries, each once, in the order
\* content types, root relationships, workbook relationships, workbook,
\* worksheet; the first four have the same content for every input.
C25_FivePartsInOrder ==
    /\ (component = "xlsx" /\ pc = "done" /\ ret = "nil") =>
           /\ [i \in 1..Len(archive) |-> archive[i].name] = FivePartNames
           /\ \A i \in 1..4 : archive[i].data = FourFixedContents[i]
    /\ (component = "split" /\ pc = "done" /\ ret = "nil") =>
           \A p \in 1..Len(archive) :
               /\ [i \in 1..Len(archive[p].data) |-> archive[p].data[i].name] = FivePartNames
               /\ \A i \in 1..4 : archive[p].data[i].data = <<FourFixedContents[i]>>

\* a workbook built on the chunked path from three rows in two chunks is complete
C25_Witness ==
    /\ executor = "sync" /\ cfgMode = "parallel"
    /\ component = "xlsx" /\ pc = "done" /\ ret = "nil"
    /\ Len(rows) = 3 /\ Len(XlsxChunks) = 2
    /\ Len(archive) = 5

\* ------------------------------------------------------------ mode dispatch
\* The three components that read the mode themselves, each called directly
\* with a configuration whose mode may be unset ("") or unknown.
ConfigModes == {"sync", "parallel", "", "turbo"}

\* Writer.Write: WriteSync for mode sync, WriteParallel for anything else
WriterWrite ==
    /\ pc = "Write"
    /\ executor = "writer"
    /\ pc' = IF cfgMode = "sync" THEN "WriteSync" ELSE "WriteParallel"
    /\ UNCHANGED <<poolVars, globalVars, ioVars, fnVars, nodeVars, splitVars, fileCreated, jobVars, cfgMode, component, taskVars, chanVars, closerPc, results, out, archive, ret>>

ModeInit ==
    /\ headers \in SampleHeaders
    /\ \E n \in 0..MaxRows : rows = SampleRows(n)
    /\ cfgMode \in ConfigModes
    /\ cfgChunkSize \in 0..MaxChunkSize
    /\ cfgWorkers \in 0..MaxWorkers
    /\ cfgIncludeHeaders = TRUE
    /\ splitResult = NilResult
    /\ Idle
    /\ NoIo /\ NoFn /\ NoNode
    /\ NoPool
    /\ \/ /\ executor = "writer" /\ cfgFormat = "csv" /\ pc = "Write"
          /\ cfgSplit = FALSE /\ cfgZip = FALSE
       \/ /\ executor = "builder" /\ cfgFormat = "xlsx" /\ pc = "Build"
          /\ cfgSplit = FALSE /\ cfgZip = FALSE
       \/ /\ executor = "splitter" /\ cfgFormat \in {"csv", "pdf"} /\ pc = "entry"
          /\ cfgSplit = TRUE /\ cfgZip = TRUE

ModeNext ==
    \/ WriterWrite
    \/ CsvNext
    \/ XlsxNext
    \/ SplitNext

SpecMode == ModeInit /\ [][ModeNext]_vars

\* C29: with a mode that is unset or not one of sync, parallel, global_pool,
\* csv.Writer.Write, the builder's worksheet writer and the splitter take
\* their synchronous path: no chunk task is ever dispatched.
C29_UnknownModeRunsSync ==
    cfgMode \notin Modes => (spawned = 0 /\ taskPc = << >> /\ pc \notin {"WriteParallel", "spawn"})

\* ------------------------------------------------------------ Node wrapper
\* ExportEngine of the Node wrapper: every public method builds the command
\* line of the binary from its options and spawns the binary with it.
NodeDefaultWorkers == 4
NodeDefaultChunkSize == 10000

NodeMethods ==
    {"exportCSV", "exportXLSX", "exportCSVBuffer", "exportXLSXBuffer", "splitZip", "splitZipBuffer"}

\* options.mode || 'parallel'
ArgMode == IF "mode" \in nodeOptions.given THEN nodeOptions.mode ELSE "parallel"

\* String(options.workers || 4): 0 is falsy as well
ArgWorkers ==
    Itoa(IF "workers" \in nodeOptions.given /\ nodeOptions.workers # 0
         THEN nodeOptions.workers ELSE NodeDefaultWorkers)

\* String(options.chunkSize || 10000)
ArgChunkSize ==
    Itoa(IF "chunkSize" \in nodeOptions.given /\ nodeOptions.chunkSize # 0
         THEN nodeOptions.chunkSize ELSE NodeDefaultChunkSize)

\* options.format || 'csv'
ArgFormat == IF "format" \in nodeOptions.given THEN nodeOptions.format ELSE "csv"

\* String(options.includeHeaders !== false)
ArgIncludeHeaders ==
    IF "includeHeaders" \in nodeOptions.given /\ nodeOptions.includeHeaders = FALSE
    THEN "false" ELSE "true"

\* the args of the private method export(format, ...)
ExportArgs(format) ==
    [command |-> format, mode |-> ArgMode, workers |-> ArgWorkers, chunkSize |-> ArgChunkSize]

\* the args of splitZip
SplitZipArgs ==
    [command |-> "split-zip", mode |-> ArgMode, workers |-> ArgWorkers,
     chunkSize |-> ArgChunkSize, format |-> ArgFormat, includeHeaders |-> ArgIncludeHeaders]

\* executeBinary(args): spawn(this.binaryPath, args)
Spawn(args) ==
    /\ nodePc = "call"
    /\ nodeArgs' = args
    /\ nodePc' = "spawned"
    /\ UNCHANGED <<exportVars, poolVars, globalVars, ioVars, fnVars, nodeCall, nodeOptions,
                   clock, tmpFiles, nodeCalls>>

ExportCSV ==
    /\ nodeCall = "exportCSV"
    /\ Spawn(ExportArgs("csv"))

ExportXLSX ==
    /\ nodeCall = "exportXLSX"
    /\ Spawn(ExportArgs("xlsx"))

\* exportCSVBuffer: exportCSV to a temporary file
ExportCSVBuffer ==
    /\ nodeCall = "exportCSVBuffer"
    /\ Spawn(ExportArgs("csv"))

\* exportXLSXBuffer: exportXLSX to a temporary file
ExportXLSXBuffer ==
    /\ nodeCall = "exportXLSXBuffer"
    /\ Spawn(ExportArgs("xlsx"))

SplitZip ==
    /\ nodeCall = "splitZip"
    /\ Spawn(SplitZipArgs)

\* splitZipBuffer: splitZip to a temporary file
SplitZipBuffer ==
    /\ nodeCall = "splitZipBuffer"
    /\ Spawn(SplitZipArgs)

NodeInit ==
    /\ headers = <<>> /\ rows = <<>>
    /\ cfgMode = "sync" /\ cfgFormat = "csv" /\ cfgChunkSize = 0 /\ cfgWorkers = 0
    /\ executor = "none" /\ pc = "none"
    /\ cfgSplit = FALSE /\ cfgZip = FALSE /\ cfgIncludeHeaders = TRUE
    /\ splitResult = NilResult
    /\ Idle
    /\ NoPool
    /\ NoIo /\ NoFn
    /\ NoNodeCalls
    /\ nodeCall \in NodeMethods
    /\ nodePc = "call"
    /\ nodeArgs = [command |-> "none"]
    /\ \E given \in SUBSET {"mode", "workers", "chunkSize", "format", "includeHeaders"},
          m \in Modes, w \in 0..MaxWorkers, c \in 0..MaxChunkSize,
          f \in {"csv", "xlsx"}, h \in BOOLEAN :
           nodeOptions = [given |-> given,
                          mode |-> IF "mode" \in given THEN m ELSE NoOptions.mode,
                          workers |-> IF "workers" \in given THEN w ELSE NoOptions.workers,
                          chunkSize |-> IF "chunkSize" \in given THEN c ELSE NoOptions.chunkSize,
                          format |-> IF "format" \in given THEN f ELSE NoOptions.format,
                          includeHeaders |-> IF "includeHeaders" \in given THEN h
                                             ELSE NoOptions.includeHeaders]

NodeNext ==
    \/ ExportCSV
    \/ ExportXLSX
    \/ ExportCSVBuffer
    \/ ExportXLSXBuffer
    \/ SplitZip
    \/ SplitZipBuffer

SpecNode == NodeInit /\ [][NodeNext]_vars

\* ------------------------------------------------------------ the wrapper's temporary files
\* Calls of the wrapper's methods run as async functions on one event loop:
\* each runs without interruption from one await to the next, and the calls
\* interleave at the awaits. The clock is the millisecond clock Date.now() reads.
MaxNodeCalls == 2
MaxClock == 2

NodeCallIds == 1..MaxNodeCalls

BufferMethods == {"exportCSVBuffer", "exportXLSXBuffer", "splitZipBuffer"}

\* path.join(os.tmpdir(), `input-${Date.now()}.json`)
TmpInputPath(now) == "input-" \o ToString(now) \o ".json"

\* the tmpOutput of the buffer methods: export-<now>.csv, export-<now>.xlsx,
\* split-export-<now>.zip; the other methods write to the caller's outputPath
TmpOutputPath(method, now) ==
    CASE method = "exportCSVBuffer" -> "export-" \o ToString(now) \o ".csv"
      [] method = "exportXLSXBuffer" -> "export-" \o ToString(now) \o ".xlsx"
      [] method = "splitZipBuffer" -> "split-export-" \o ToString(now) \o ".zip"
      [] OTHER -> "none"

\* the call has begun and has not settled
InProgress(c) == nodeCalls[c].pc \notin {"idle", "resolved", "rejected"}

Settled(c) == nodeCalls[c].pc \in {"resolved", "rejected"}

\* a millisecond passes
Tick ==
    /\ clock < MaxClock
    /\ clock' = clock + 1
    /\ UNCHANGED <<exportVars, poolVars, globalVars, ioVars, fnVars, nodeCall, nodeOptions,
                   nodePc, nodeArgs, tmpFiles, nodeCalls>>

\* the method up to its first await: a buffer method names its tmpOutput and
\* calls exportCSV / exportXLSX / splitZip, which names tmpInput and starts
\* fs.writeFile(tmpInput, ...)
NodeBegin(c) ==
    /\ nodeCalls[c].pc = "idle"
    /\ nodeCalls' = [nodeCalls EXCEPT ![c].pc = "writeFile",
                                      ![c].tmpOutput = TmpOutputPath(nodeCalls[c].method, clock),
                                      ![c].tmpInput = TmpInputPath(clock)]
    /\ UNCHANGED <<exportVars, poolVars, globalVars, ioVars, fnVars, nodeCall, nodeOptions,
                   nodePc, nodeArgs, clock, tmpFiles>>

\* await fs.writeFile(tmpInput, JSON.stringify(data)) is done; the binary is spawned
NodeWriteFile(c) ==
    /\ nodeCalls[c].pc = "writeFile"
    /\ tmpFiles' = tmpFiles \cup {nodeCalls[c].tmpInput}
    /\ nodeCalls' = [nodeCalls EXCEPT ![c].pc = "executeBinary"]
    /\ UNCHANGED <<exportVars, poolVars, globalVars, ioVars, fnVars, nodeCall, nodeOptions,
                   nodePc, nodeArgs, clock>>

\* what a run of the binary can come to: it exits with 0 after writing the
\* output; it fails before os.Create(OutputPath); it fails after it (the
\* binary never removes the file). Without its input file it fails.
BinaryOutcomes(c) ==
    IF nodeCalls[c].tmpInput \in tmpFiles
    THEN {"ok", "failedBeforeCreate", "failedAfterCreate"}
    ELSE {"failedBeforeCreate"}

\* await this.executeBinary(args): the child process closes
NodeExecuteBinary(c) ==
    /\ nodeCalls[c].pc = "executeBinary"
    /\ \E outcome \in BinaryOutcomes(c) :
          /\ tmpFiles' = IF outcome # "failedBeforeCreate" /\ nodeCalls[c].method \in BufferMethods
                         THEN tmpFiles \cup {nodeCalls[c].tmpOutput}
                         ELSE tmpFiles
          /\ nodeCalls' = [nodeCalls EXCEPT ![c].pc = "finally",
                                            ![c].failed = (outcome # "ok")]
    /\ UNCHANGED <<exportVars, poolVars, globalVars, ioVars, fnVars, nodeCall, nodeOptions,
                   nodePc, nodeArgs, clock>>

\* where a call goes after the finally block: a rejection of the binary leaves
\* every method through its await; a buffer method goes on to read tmpOutput
AfterFinally(failed, method) ==
    IF failed THEN "rejected"
    ELSE IF method \in BufferMethods THEN "readFile" ELSE "resolved"

\* finally { await fs.unlink(tmpInput).catch(() => {}) }
NodeFinally(c) ==
    /\ nodeCalls[c].pc = "finally"
    /\ tmpFiles' = tmpFiles \ {nodeCalls[c].tmpInput}
    /\ nodeCalls' = [nodeCalls EXCEPT ![c].pc = AfterFinally(nodeCalls[c].failed, nodeCalls[c].method)]
    /\ UNCHANGED <<exportVars, poolVars, globalVars, ioVars, fnVars, nodeCall, nodeOptions,
                   nodePc, nodeArgs, clock>>

\* const buffer = await fs.readFile(tmpOutput): rejects when the file is not there
NodeReadFile(c) ==
    /\ nodeCalls[c].pc = "readFile"
    /\ nodeCalls' = [nodeCalls EXCEPT ![c].pc = IF nodeCalls[c].tmpOutput \in tmpFiles
                                                 THEN "unlink" ELSE "rejected"]
    /\ UNCHANGED <<exportVars, poolVars, globalVars, ioVars, fnVars, nodeCall, nodeOptions,
                   nodePc, nodeArgs, clock, tmpFiles>>

\* await fs.unlink(tmpOutput); return buffer
NodeUnlink(c) ==
    /\ nodeCalls[c].pc = "unlink"
    /\ tmpFiles' = tmpFiles \ {nodeCalls[c].tmpOutput}
    /\ nodeCalls' = [nodeCalls EXCEPT ![c].pc = IF nodeCalls[c].tmpOutput \in tmpFiles
                                                 THEN "resolved" ELSE "rejected"]
    /\ UNCHANGED <<exportVars, poolVars, globalVars, ioVars, fnVars, nodeCall, nodeOptions,
                   nodePc, nodeArgs, clock>>

NodeTempInit ==
    /\ headers = <<>> /\ rows = <<>>
    /\ cfgMode = "sync" /\ cfgFormat = "csv" /\ cfgChunkSize = 0 /\ cfgWorkers = 0
    /\ executor = "none" /\ pc = "none"
    /\ cfgSplit = FALSE /\ cfgZip = FALSE /\ cfgIncludeHeaders = TRUE
    /\ splitResult = NilResult
    /\ Idle
    /\ NoPool
    /\ NoIo /\ NoFn
    /\ NoNodeArgs
    /\ clock = 0
    /\ tmpFiles = {}
    /\ nodeCalls \in [NodeCallIds -> [method : NodeMethods, pc : {"idle"}, tmpInput : {"none"},
                                      tmpOutput : {"none"}, failed : {FALSE}]]

NodeTempNext ==
    \/ Tick
    \/ \E c \in NodeCallIds :
          \/ NodeBegin(c)
          \/ NodeWriteFile(c)
          \/ NodeExecuteBinary(c)
          \/ NodeFinally(c)
          \/ NodeReadFile(c)
          \/ NodeUnlink(c)

SpecNodeTemp == NodeTempInit /\ [][NodeTempNext]_vars

\* C28: when the caller omits options.mode, every export method of the Node
\* wrapper runs the binary in mode sync.
C28_OmittedModeRunsSync ==
    (nodePc = "spawned" /\ "mode" \notin nodeOptions.given) => nodeArgs.mode = "sync"

\* C31: in a parallel CSV or spreadsheet export the sink changes only in a
\* step of the coordinating task; no chunk task moves in that step, and the
\* data rows are written when every chunk task of the call has been started
\* and has finished.
C31_OnlyCoordinatorWritesSink ==
    [][(component \in {"csv", "xlsx"} /\ (out' # out \/ archive' # archive)) =>
           /\ pc = "checkErr" /\ pc' = "done"
           /\ taskPc' = taskPc
           /\ spawned = (IF component = "csv" THEN Len(CsvChunks) ELSE Len(XlsxChunks))
           /\ \A i \in DOMAIN taskPc : taskPc[i] = "done"
           /\ wg = 0 /\ semaphore = 0]_vars

\* the coordinating task has written the rows of three tasks after they finished
C31_Witness ==
    /\ executor = "parallel" /\ component = "csv" /\ pc = "done" /\ ret = "nil"
    /\ spawned = 3
    /\ \A i \in DOMAIN taskPc : taskPc[i] = "done"
    /\ Len(out) = Len(headers) \div 2 + 3

\* the row elements of the worksheet of an xlsx part
PartSheetRows(e) == SelectSeq(e.data[5].data, LAMBDA x : x.tag = "row")

\* the texts of the cells of a row element
CellTexts(rowElement) == [j \in 1..Len(rowElement.cells) |-> rowElement.cells[j].t]

\* C32: every part of a finished split+zip stands alone. With includeHeaders
\* and non-empty headers each part starts with the header record (row 1 in a
\* worksheet) followed by its own rows, numbered from 2; otherwise a part holds
\* its own rows only, numbered from 1 in a worksheet.
C32_PartsSelfContained ==
    (component = "split" /\ pc = "done" /\ ret = "nil") =>
        \A p \in 1..Len(archive) :
            LET withHeader == cfgIncludeHeaders /\ Len(headers) > 0
                h == IF withHeader THEN 1 ELSE 0
                own == ExpectedPartRows(p)
            IN  IF cfgFormat = "csv"
                THEN /\ Len(archive[p].data) = h + Len(own)
                     /\ withHeader => archive[p].data[1] = headers
                     /\ \A k \in 1..Len(own) : archive[p].data[h + k] = RowRecord(own[k])
                ELSE LET sheet == PartSheetRows(archive[p])
                     IN  /\ Len(sheet) = h + Len(own)
                         /\ withHeader =>
                                /\ sheet[1].r = <<"1">>
                                /\ CellTexts(sheet[1]) = [j \in 1..Len(headers) |-> EscapeString(headers[j])]
                         /\ \A k \in 1..Len(own) :
                                /\ sheet[h + k].r = Itoa(h + k)
                                /\ CellTexts(sheet[h + k])
                                       = [j \in 1..Len(own[k]) |-> EscapeString(SprintV(own[k][j]))]

\* a parallel split into two xlsx parts with headers has finished: the second
\* part starts again with the header row
C32_Witness ==
    /\ InSplitParallel /\ pc = "done" /\ ret = "nil"
    /\ cfgFormat = "xlsx" /\ cfgIncludeHeaders /\ Len(headers) > 0
    /\ Len(archive) = 2
    /\ PartSheetRows(archive[2])[1].r = <<"1">>
    /\ PartSheetRows(archive[2])[2].r = <<"2">>

\* C33: when ParallelExecutor.Execute has returned, every chunk task the call
\* started has finished and holds no admission slot, every chunk was started,
\* and the call has used no worker pool or other state that outlives it.
C33_NothingOutlivesParallelCall ==
    (executor = "parallel" /\ pc = "done") =>
        /\ \A i \in DOMAIN taskPc : taskPc[i] = "done"
        /\ wg = 0 /\ semaphore = 0
        /\ resultChan = <<>> /\ resultClosed = (component # "none")
        /\ NoPool

\* Execute has returned from a spreadsheet export whose three tasks shared one slot
C33_Witness ==
    /\ executor = "parallel" /\ pc = "done" /\ ret = "nil"
    /\ component = "xlsx" /\ cfgWorkers = 1
    /\ spawned = 3
    /\ \A i \in DOMAIN taskPc : taskPc[i] = "done"
    /\ semaphore = 0

\* thread t is inside Execute, waiting on <-job.Result
AwaitsResult(t) ==
    threadOp[t] = "Submit" /\ threadPc[t] = "returned" /\ threadCaller[t] = "Execute"

\* C34: every call of PoolExecutor.Execute returns, also when the shared pool
\* is shut down before or during the call: a caller that waits for its result
\* has its job in the queue or with a worker, or its result is on its way.
C34_ExecuteNeverStranded ==
    \A t \in Callers :
        AwaitsResult(t) =>
            \/ CanReceive(slot[t], slotClosed[t])
            \/ InQueue(t)
            \/ \E w \in DOMAIN workerJob : workerJob[w] = t

\* C35: Shutdown returns under every interleaving of Start, Submit and
\* Shutdown calls: while a Shutdown call has not returned, some step of the
\* pool can still be taken.
C35_ShutdownNeverStuck ==
    (panicked = "none" /\ \E t \in Threads : threadOp[t] = "Shutdown" /\ threadPc[t] # "returned") =>
        ENABLED PoolNext

\* C36: NewPoolExecutor returns the same instance to every caller, also when
\* the first uses race: any two callers that have got their executor hold the
\* same object.
C36_SameExecutorForAll ==
    \A t \in Callers : \A u \in Callers :
        (threadExec[t] # 0 /\ threadExec[u] # 0) => threadExec[t] = threadExec[u]

\* C37: for the same headers, rows, chunkSize, format and includeHeaders a
\* successful split+zip leaves the archive entries (names, order, content) and
\* the result that the sequential loop of executeSync produces, whatever the
\* mode, the number of workers and the order the part tasks completed in.
C37_SplitSameInEveryMode ==
    (component = "split" /\ pc = "done" /\ ret = "nil") =>
        LET r == syncParts(0, SplitNumParts, SplitChunkSize)
        IN  /\ r.err = "nil"
            /\ archive = r.entries
            /\ splitResult = SplitZipResult(SplitNumParts, Len(rows),
                                 [i \in 1..Len(r.entries) |-> r.entries[i].name])

\* C37 witness: a global_pool split of three rows with a header into three csv
\* parts, run by two workers, has succeeded
C37_Witness ==
    /\ component = "split" /\ pc = "done" /\ ret = "nil"
    /\ cfgMode = "global_pool" /\ cfgFormat = "csv" /\ SplitWorkers = 2
    /\ cfgIncludeHeaders /\ Len(headers) > 0
    /\ Len(rows) = 3 /\ Len(archive) = 3
    /\ closerPc = "done"

\* C38: two wrapper calls that are in progress at the same time never use the
\* same temporary input path nor the same temporary output path.
C38_TempPathsDistinct ==
    \A c \in NodeCallIds : \A d \in NodeCallIds :
        (c # d /\ InProgress(c) /\ InProgress(d)) =>
            /\ nodeCalls[c].tmpInput # nodeCalls[d].tmpInput
            /\ nodeCalls[c].tmpOutput = "none" \/ nodeCalls[c].tmpOutput # nodeCalls[d].tmpOutput

\* call c shares no temporary path with the other calls
OwnPaths(c) ==
    \A d \in NodeCallIds \ {c} :
        /\ nodeCalls[d].tmpInput # nodeCalls[c].tmpInput
        /\ nodeCalls[d].tmpOutput # nodeCalls[c].tmpOutput

\* C39: when a buffer export has settled, resolved or rejected, neither its
\* temporary input file nor its temporary output file remains.
C39_NoTempFileAfterSettle ==
    \A c \in NodeCallIds :
        (nodeCalls[c].method \in BufferMethods /\ Settled(c) /\ OwnPaths(c)) =>
            /\ nodeCalls[c].tmpInput \notin tmpFiles
            /\ nodeCalls[c].tmpOutput \notin tmpFiles

\* C40: for every number of rows N >= 0 and every positive chunkSize, up to
\* the maximum integer, the part count the splitter computes is
\* max(1, ceil(N / chunkSize)), and so is never zero or negative.
C40_PartCountExact ==
    (fnName = "numParts" /\ fnPc = "returned") =>
        /\ fnOut[1] >= 1
        /\ fnOut[1] = (IF CeilDiv(fnInt, cfgChunkSize) < 1 THEN 1 ELSE CeilDiv(fnInt, cfgChunkSize))

====
